---- MODULE Spec2Model ----
(***************************************************************************)
(* A model of the voice-agent backend: the appointment store and its       *)
(* availability check (internal/database), the tool executor               *)
(* (internal/tools), the turn engine (internal/services/llm), the session  *)
(* orchestrator (internal/agent) and the reminder scheduler                *)
(* (internal/services/reminder).                                           *)
(*                                                                         *)
(* Time is an integer count of sub-second units since an arbitrary epoch:  *)
(* one second is SubSecond units, so that instants with a fractional       *)
(* second exist (time.Parse(time.RFC3339, ..) accepts them, and the store  *)
(* keeps them), while time.Format(time.RFC3339) drops the fraction.        *)
(***************************************************************************)
EXTENDS Integers, Sequences, FiniteSets, TLC

\* ------------------------------------------------------------------ bounds
SubSecond == 2
MaxAppts == 2
MaxTurns == 2
MaxEndCalls == 2
MaxRounds == 2
MaxBatch == 2
MaxToolCalls == 1
MaxRecords == 2

\* ------------------------------------------------------------------ time
SecondsPerMinute == 60
Minute == SecondsPerMinute * SubSecond
Hour == 60 * Minute
Day == 24 * Hour

\* time.Time.Format(time.RFC3339): the text carries whole seconds only, so the
\* instant it denotes is the argument with its fractional second dropped.
FormatRFC3339(t) == t - (t % SubSecond)

\* ------------------------------------------------------------------ models
StatusBooked == "booked"
StatusCancelled == "cancelled"
StatusCompleted == "completed"

ToolIdentifyUser == "identify_user"
ToolFetchSlots == "fetch_slots"
ToolBookAppointment == "book_appointment"
ToolRetrieveAppointments == "retrieve_appointments"
ToolCancelAppointment == "cancel_appointment"
ToolModifyAppointment == "modify_appointment"
ToolEndConversation == "end_conversation"

DefaultDuration == 30

\* ------------------------------------------------------------------ inputs
Sessions == {"s1", "s2"}
Digits == {"1", "2"}
\* phone_number arguments as rune sequences; <<>> is the absent or empty argument
RawPhones == { <<>>, <<"-">>, <<"1">>, <<"1", "-">>, <<"+", "2">> }
Names == {"", "Jane"}
\* the instants a date_time argument denotes here: the start of minute 0 and of
\* minute 1, and an instant with a fractional second (time.Parse keeps it)
Instants == { 0, 1, Minute }
\* a duration argument: <<>> when absent, <<d>> for the number d
DurationArgs == { <<>>, <<0>>, <<1>> }
\* a date_time argument: absent, unparsable, or the instant it denotes
NoDateArg == [kind |-> "absent", t |-> 0]
BadDateArg == [kind |-> "bad", t |-> 0]
DateArg(t) == [kind |-> "ok", t |-> t]
DateArgs == { NoDateArg, BadDateArg } \cup { DateArg(t) : t \in Instants }
\* an appointment_id argument: 0 when absent, MaxAppts + 1 for an id of no row
ApptArgs == 0..(MaxAppts + 1)
\* the notes column: the text, then one line per appended cancellation reason
Notes(text) == [text |-> text, reasons |-> <<>>]

VARIABLES
    users,          \* data store: the rows of table users
    appointments,   \* data store: the rows of table appointments, by id 1..n
    userPhone,      \* ToolExecutor.userPhone, per session
    userName,       \* ToolExecutor.userName, per session
    now,            \* time.Now()
    last,           \* the latest operation and what it returned
    identified,     \* history: per session, the latest successful identify_user
    mu,             \* VoiceAgent.mu: its writer (NoWriter when none) and its readers
    isProcessing,   \* VoiceAgent.isProcessing
    shouldEnd,      \* VoiceAgent.shouldEnd
    messages,       \* VoiceAgent.messages
    turnPc,         \* where each ProcessUserInput invocation stands
    resp,           \* what Chat returned to each ProcessUserInput invocation
    endPc,          \* where each EndCall invocation stands
    ecPc,           \* where the endConversation run of each invocation stands
    triggers,       \* history: the termination triggers, in the order they occurred
    ecStarted,      \* history: endConversation runs started
    summaries,      \* history: summaries produced (generated, or the placeholder)
    saves,          \* history: SaveCallSummary calls
    callEnds,       \* history: onCallEnd invocations
    ecLog,          \* history: what each endConversation met and delivered
    onErrors,       \* history: onError invocations of each turn and termination
    ttsClient,      \* VoiceAgent.ttsClient is not nil
    totalCharacters,\* cartesia.Service.totalCharacters
    greetPc,        \* where Start and its sendGreeting goroutine stand
    speech,         \* history: how the latest utterance of each speaker was synthesized
    toolCalls,      \* VoiceAgent.toolCalls: the audit records of the tool calls
    readerPc,       \* where each GetSession, GetMessages or GetToolCalls stands
    cancelled,      \* VoiceAgent.ctx: whether cancel() has been called
    booking,        \* each session's book_appointment call between its check and its create
    sttClient,      \* VoiceAgent.sttClient is not nil
    audioPc,        \* where the SendAudio invocation of the connection stands
    chatPc,         \* Service.Chat: where the call stands
    batch,          \* Service.Chat: choice.Message.ToolCalls of the current round
    idx,            \* Service.Chat: the next tool call of the batch to execute
    chatEnd,        \* Service.Chat: the local shouldEnd of the current round
    openAIMessages, \* Service.Chat: the messages appended to the request so far
    chatResp,       \* Service.Chat: what the call returned
    rounds,         \* history: rounds with tool calls so far
    completions,    \* history: the CreateChatCompletion calls, in order
    reminders,      \* ReminderService.reminders: appointment id -> its record, 0 when none
    records,        \* the ReminderRecord objects ever allocated
    tick,           \* checkReminders: where the running tick stands
    fired           \* history: callback invocations per appointment and type since
                    \* the appointment was last added

toolsVars == <<users, appointments, userPhone, userName, now, last, identified>>
sttVars == <<sttClient, audioPc, cancelled>>
ttsVars == <<ttsClient, totalCharacters, greetPc, speech>>
auditVars == <<toolCalls, readerPc>>
agentVars == <<mu, isProcessing, shouldEnd, messages, turnPc, resp, endPc, ecPc,
               triggers, ecStarted, summaries, saves, callEnds, ecLog, onErrors,
               sttVars, ttsVars, auditVars>>
chatVars == <<chatPc, batch, idx, chatEnd, openAIMessages, chatResp, rounds, completions>>
reminderVars == <<reminders, records, tick, fired>>
bookVars == <<booking>>
vars == <<toolsVars, agentVars, chatVars, reminderVars, bookVars>>
othersOfTools == <<agentVars, chatVars, reminderVars, bookVars>>

\* ------------------------------------------------------------------ store
\* SupabaseClient.GetUserByPhone: is there a row with that phone, and the row
HasUser(phone) == \E u \in users : u.phone_number = phone
GetUserByPhone(phone) == CHOOSE u \in users : u.phone_number = phone

\* SupabaseClient.CheckSlotAvailability on a store that answers
CheckSlotAvailability(appts, dateTime, duration) ==
    LET requestedStart == dateTime
        requestedEnd == dateTime + duration * Minute
        \* appointments?status=eq.booked&date_time=lt.<requestedEnd as RFC3339>
        fetched == { i \in DOMAIN appts :
                        /\ appts[i].status = StatusBooked
                        /\ appts[i].date_time < FormatRFC3339(requestedEnd) }
    IN  ~ \E i \in fetched :
            LET aptStart == appts[i].date_time
                aptEnd == aptStart + appts[i].duration * Minute
            IN  aptStart < requestedEnd /\ aptEnd > requestedStart

\* ------------------------------------------------------------------ executor
RECURSIVE normalizeFrom(_, _)
normalizeFrom(phone, i) ==
    IF i > Len(phone) THEN <<>>
    ELSE LET r == phone[i]
         IN  (IF (r = "+" /\ i = 1) \/ r \in Digits THEN <<r>> ELSE <<>>)
                \o normalizeFrom(phone, i + 1)

normalizePhoneNumber(phone) == normalizeFrom(phone, 1)

NoResult ==
    [sess |-> "", tool |-> "", hardError |-> FALSE, success |-> FALSE, msg |-> "",
     phone |-> <<>>, name |-> "", existed |-> FALSE, is_new_user |-> FALSE,
     date_time |-> 0, duration |-> 0, id |-> 0, wrote |-> FALSE, changes |-> <<>>,
     given |-> {}, new_notes |-> "", reason |-> "", failed |-> "",
     flagged |-> FALSE, slots |-> <<>>, events |-> <<>>, logged |-> 0]

\* ExecuteTool, lines 54-99, around a tool whose arguments parsed: the tool-call
\* notification before the switch and the tool-result notification after it, both
\* with toolCallID; the session's onToolCall callback appends one record to
\* VoiceAgent.toolCalls (agent.go, lines 100-112)
Call(s, tool) ==
    [NoResult EXCEPT !.sess = s, !.tool = tool, !.logged = 1,
                     !.events = << <<"tool_call", "toolCallID">>,
                                   <<"tool_result", "toolCallID">> >>]
\* a structured payload with success = false, a hard error, a success payload
Failure(r, msg) == [r EXCEPT !.msg = msg, !.flagged = TRUE]
HardError(r, msg) == [r EXCEPT !.hardError = TRUE, !.msg = msg]
Success(r, msg) == [r EXCEPT !.success = TRUE, !.msg = msg, !.flagged = TRUE]
\* a structured payload that carries no success key
Payload(r, msg) == [r EXCEPT !.msg = msg]
\* the hard error a tool wraps around the error of the data-store call op
StoreError(r, op, msg) == [HardError(r, msg) EXCEPT !.failed = op]

NotIdentified == "User not identified"

\* every session counts as identified
IdentifiedAlways(s) == TRUE

\* the test of e.userPhone that opens book, retrieve, cancel and modify
Identified(s) == userPhone[s] # <<>>

\* every appointment counts as the caller's
OwnsAny(s, appointment) == TRUE

\* cancelAppointment and modifyAppointment: "Verify ownership"
Owns(s, appointment) == appointment.user_phone = userPhone[s]

\* no appointment counts as cancelled
AlreadyCancelledNever(appointment) == FALSE

\* cancelAppointment, line 366
AlreadyCancelled(appointment) == appointment.status = StatusCancelled

\* the new notes are appended to the old ones as one more line
withNotesAppended(appointment, newNotes) ==
    IF newNotes # ""
    THEN [appointment EXCEPT !.notes.reasons = Append(@, newNotes)]
    ELSE appointment

\* modifyAppointment, lines 486-491: new_notes replaces the notes column
withNotes(appointment, newNotes) ==
    IF newNotes # "" THEN [appointment EXCEPT !.notes = Notes(newNotes)] ELSE appointment

\* a call without changes counts as a modification
ModifiedAlways(changes) == TRUE

\* modifyAppointment, line 493: the flag modified, set with every change recorded
Modified(changes) == changes # <<>>

\* ToolExecutor.identifyUser
identifyUser(s, phoneArg, name, fail) ==
    LET phone == normalizePhoneNumber(phoneArg)
        existed == HasUser(phone)
        call == [Call(s, ToolIdentifyUser) EXCEPT
                    !.phone = phone, !.name = name, !.existed = existed]
    IN
    IF phoneArg = <<>> THEN
        /\ last' = HardError(call, "phone_number is required")
        /\ UNCHANGED <<users, appointments, userPhone, userName, now>>
    ELSE IF fail = 1 THEN
        /\ last' = StoreError(call, "GetUserByPhone", "failed to check user")
        /\ UNCHANGED <<users, appointments, userPhone, userName, now>>
    ELSE IF ~ existed THEN
        IF fail = 2 THEN
            /\ last' = StoreError(call, "CreateUser", "failed to create user")
            /\ UNCHANGED <<users, appointments, userPhone, userName, now>>
        ELSE
            /\ users' = users \cup { [phone_number |-> phone, name |-> name] }
            /\ userPhone' = [userPhone EXCEPT ![s] = phone]
            /\ userName' = [userName EXCEPT ![s] = name]
            /\ last' = [Success(call, "User identified") EXCEPT
                            !.wrote = TRUE, !.is_new_user = (name # "")]
            /\ UNCHANGED <<appointments, now>>
    ELSE
        LET user == GetUserByPhone(phone)
            backfill == name # "" /\ user.name = ""
            nameNow == IF backfill THEN name ELSE user.name
        IN
        \* UpdateUser's error is discarded: when it fails the row keeps its name
        /\ users' = IF backfill /\ fail # 2
                    THEN (users \ {user}) \cup { [user EXCEPT !.name = name] }
                    ELSE users
        /\ userPhone' = [userPhone EXCEPT ![s] = phone]
        /\ userName' = [userName EXCEPT ![s] = nameNow]
        /\ last' = [Success(call, "User identified") EXCEPT
                        !.wrote = (backfill /\ fail # 2),
                        !.failed = IF backfill /\ fail = 2 THEN "UpdateUser" ELSE "",
                        !.is_new_user = (nameNow = name /\ name # "")]
        /\ UNCHANGED <<appointments, now>>

\* fetchSlots, lines 167-169: the slots of a day, 9:00 to 16:30 every 30 minutes
SlotsPerDay == 16
SlotAt(date, k) == date + 9 * Hour + (k - 1) * 30 * Minute

\* fetchSlots, lines 176-187: one slot of the listing; when the availability
\* check fails the slot is listed as available
Slot(appts, slotTime, failed) ==
    [date_time |-> slotTime,
     available |-> IF failed THEN TRUE ELSE CheckSlotAvailability(appts, slotTime, 30),
     checked |-> ~ failed]

RECURSIVE slotsFrom(_, _, _)
slotsFrom(date, k, failing) ==
    IF k > SlotsPerDay THEN <<>>
    ELSE (IF SlotAt(date, k) < now THEN <<>>
          ELSE << Slot(appointments, SlotAt(date, k), k \in failing) >>)
         \o slotsFrom(date, k + 1, failing)

\* ToolExecutor.fetchSlots; failing is the set of slots whose availability check
\* the data store fails
fetchSlots(s, dateArg, failing) ==
    LET call == Call(s, ToolFetchSlots)
        slots == slotsFrom(dateArg.t, 1, failing)
    IN
    /\ last' = IF dateArg.kind = "absent" THEN HardError(call, "date is required")
               ELSE IF dateArg.kind = "bad" THEN HardError(call, "invalid date format")
               ELSE [Payload(call, "Found available slots") EXCEPT
                        !.date_time = dateArg.t, !.slots = slots,
                        !.failed = IF \E i \in 1..Len(slots) : ~ slots[i].checked
                                   THEN "CheckSlotAvailability" ELSE ""]
    /\ UNCHANGED <<users, appointments, userPhone, userName, now>>

\* ToolExecutor.endConversation
endConversation(s) ==
    /\ last' = Success(Call(s, ToolEndConversation), "Conversation ended")
    /\ UNCHANGED <<users, appointments, userPhone, userName, now>>

\* ExecuteTool, default case of the switch: no tool of that name
unknownTool(s) ==
    /\ last' = HardError(Call(s, "unknown"), "unknown tool")
    /\ UNCHANGED <<users, appointments, userPhone, userName, now>>

\* ExecuteTool, lines 49-52: the arguments are not a JSON object; the function
\* returns before it notifies anybody
unparsableArguments(s, tool) ==
    /\ last' = HardError([NoResult EXCEPT !.sess = s, !.tool = tool],
                         "failed to parse arguments")
    /\ UNCHANGED <<users, appointments, userPhone, userName, now>>

\* ToolExecutor.bookAppointment
bookAppointment(s, dateArg, durArg, purpose, notes, fail) ==
    LET call == Call(s, ToolBookAppointment)
        dateTime == dateArg.t
        duration == IF durArg = <<>> THEN DefaultDuration ELSE durArg[1]
        args == [call EXCEPT !.date_time = dateTime, !.duration = duration]
    IN
    IF ~ Identified(s) THEN
        /\ last' = Failure(call, NotIdentified)
        /\ UNCHANGED <<users, appointments, userPhone, userName, now>>
    ELSE IF dateArg.kind = "absent" THEN
        /\ last' = HardError(call, "date_time is required")
        /\ UNCHANGED <<users, appointments, userPhone, userName, now>>
    ELSE IF dateArg.kind = "bad" THEN
        /\ last' = HardError(call, "invalid date_time format")
        /\ UNCHANGED <<users, appointments, userPhone, userName, now>>
    ELSE IF dateTime < now THEN
        /\ last' = Failure(args, "Cannot book appointments in the past")
        /\ UNCHANGED <<users, appointments, userPhone, userName, now>>
    ELSE IF fail = 1 THEN
        /\ last' = StoreError(args, "CheckSlotAvailability", "failed to check availability")
        /\ UNCHANGED <<users, appointments, userPhone, userName, now>>
    ELSE IF ~ CheckSlotAvailability(appointments, dateTime, duration) THEN
        /\ last' = Failure(args, "This time slot is already booked")
        /\ UNCHANGED <<users, appointments, userPhone, userName, now>>
    ELSE IF fail = 2 THEN
        /\ last' = StoreError(args, "CreateAppointment", "failed to book appointment")
        /\ UNCHANGED <<users, appointments, userPhone, userName, now>>
    ELSE
        /\ appointments' = Append(appointments,
                [user_phone |-> userPhone[s], date_time |-> dateTime,
                 duration |-> duration, purpose |-> purpose,
                 notes |-> Notes(notes), status |-> StatusBooked])
        /\ last' = [Success(args, "Appointment successfully booked") EXCEPT
                        !.wrote = TRUE, !.id = Len(appointments) + 1]
        /\ UNCHANGED <<users, userPhone, userName, now>>

\* ToolExecutor.cancelAppointment; the appointment_id argument 0 is the absent one
cancelAppointment(s, id, reason, fail) ==
    LET call == [Call(s, ToolCancelAppointment) EXCEPT !.id = id, !.reason = reason] IN
    IF ~ Identified(s) THEN
        /\ last' = Failure(call, NotIdentified)
        /\ UNCHANGED <<users, appointments, userPhone, userName, now>>
    ELSE IF id = 0 THEN
        /\ last' = HardError(call, "appointment_id is required")
        /\ UNCHANGED <<users, appointments, userPhone, userName, now>>
    ELSE IF fail = 1 THEN
        /\ last' = StoreError(call, "GetAppointmentByID", "failed to get appointment")
        /\ UNCHANGED <<users, appointments, userPhone, userName, now>>
    ELSE IF id \notin DOMAIN appointments THEN
        /\ last' = Failure(call, "Appointment not found")
        /\ UNCHANGED <<users, appointments, userPhone, userName, now>>
    ELSE IF ~ Owns(s, appointments[id]) THEN
        /\ last' = Failure(call, "You can only cancel your own appointments")
        /\ UNCHANGED <<users, appointments, userPhone, userName, now>>
    ELSE IF AlreadyCancelled(appointments[id]) THEN
        /\ last' = Failure(call, "Appointment is already cancelled")
        /\ UNCHANGED <<users, appointments, userPhone, userName, now>>
    ELSE IF fail = 2 THEN
        /\ last' = StoreError(call, "UpdateAppointment", "failed to cancel appointment")
        /\ UNCHANGED <<users, appointments, userPhone, userName, now>>
    ELSE
        LET old == appointments[id].notes
            notes == IF reason # ""
                     THEN [old EXCEPT !.reasons = Append(old.reasons, reason)]
                     ELSE old
        IN
        /\ appointments' = [appointments EXCEPT
                                ![id].status = StatusCancelled, ![id].notes = notes]
        /\ last' = [Success(call, "Appointment has been cancelled") EXCEPT !.wrote = TRUE]
        /\ UNCHANGED <<users, userPhone, userName, now>>

\* ToolExecutor.modifyAppointment
modifyAppointment(s, id, newDate, newDur, newPurpose, newNotes, fail) ==
    LET call == [Call(s, ToolModifyAppointment) EXCEPT
                    !.id = id, !.new_notes = newNotes,
                    !.given = (IF newDate.kind # "absent" THEN {"new_date_time"} ELSE {})
                         \cup (IF newDur # <<>> THEN {"new_duration"} ELSE {})
                         \cup (IF newPurpose # "" THEN {"new_purpose"} ELSE {})
                         \cup (IF newNotes # "" THEN {"new_notes"} ELSE {})]
    IN
    IF ~ Identified(s) THEN
        /\ last' = Failure(call, NotIdentified)
        /\ UNCHANGED <<users, appointments, userPhone, userName, now>>
    ELSE IF id = 0 THEN
        /\ last' = HardError(call, "appointment_id is required")
        /\ UNCHANGED <<users, appointments, userPhone, userName, now>>
    ELSE IF fail = 1 THEN
        /\ last' = StoreError(call, "GetAppointmentByID", "failed to get appointment")
        /\ UNCHANGED <<users, appointments, userPhone, userName, now>>
    ELSE IF id \notin DOMAIN appointments THEN
        /\ last' = Failure(call, "Appointment not found")
        /\ UNCHANGED <<users, appointments, userPhone, userName, now>>
    ELSE IF ~ Owns(s, appointments[id]) THEN
        /\ last' = Failure(call, "You can only modify your own appointments")
        /\ UNCHANGED <<users, appointments, userPhone, userName, now>>
    ELSE IF appointments[id].status = StatusCancelled THEN
        /\ last' = Failure(call, "Cannot modify a cancelled appointment")
        /\ UNCHANGED <<users, appointments, userPhone, userName, now>>
    ELSE
        LET appointment == appointments[id]
            hasDate == newDate.kind # "absent"
            hasDur == newDur # <<>>
            \* the duration the availability of the new time is checked with
            duration == IF hasDur THEN newDur[1] ELSE appointment.duration
            durChanged == hasDur /\ newDur[1] # appointment.duration
            a1 == IF hasDate THEN [appointment EXCEPT !.date_time = newDate.t]
                  ELSE appointment
            a2 == IF durChanged THEN [a1 EXCEPT !.duration = newDur[1]] ELSE a1
            a3 == IF newPurpose # "" THEN [a2 EXCEPT !.purpose = newPurpose] ELSE a2
            a4 == withNotes(a3, newNotes)
            changes == (IF hasDate THEN <<"rescheduled">> ELSE <<>>)
                    \o (IF durChanged THEN <<"duration changed">> ELSE <<>>)
                    \o (IF newPurpose # "" THEN <<"purpose updated">> ELSE <<>>)
                    \o (IF newNotes # "" THEN <<"notes updated">> ELSE <<>>)
            args == [call EXCEPT !.date_time = a4.date_time, !.duration = a4.duration]
        IN
        IF hasDate /\ newDate.kind = "bad" THEN
            /\ last' = HardError(call, "invalid new_date_time format")
            /\ UNCHANGED <<users, appointments, userPhone, userName, now>>
        ELSE IF hasDate /\ newDate.t < now THEN
            /\ last' = Failure(call, "Cannot reschedule to a past time")
            /\ UNCHANGED <<users, appointments, userPhone, userName, now>>
        ELSE IF hasDate /\ fail = 2 THEN
            /\ last' = StoreError(call, "CheckSlotAvailability", "failed to check availability")
            /\ UNCHANGED <<users, appointments, userPhone, userName, now>>
        ELSE IF hasDate /\ ~ CheckSlotAvailability(appointments, newDate.t, duration) THEN
            /\ last' = Failure([call EXCEPT !.date_time = newDate.t, !.duration = duration],
                               "The new time slot is not available")
            /\ UNCHANGED <<users, appointments, userPhone, userName, now>>
        ELSE IF ~ Modified(changes) THEN
            /\ last' = Failure(call, "No changes specified")
            /\ UNCHANGED <<users, appointments, userPhone, userName, now>>
        ELSE IF fail = 3 THEN
            /\ last' = StoreError(call, "UpdateAppointment", "failed to modify appointment")
            /\ UNCHANGED <<users, appointments, userPhone, userName, now>>
        ELSE
            /\ appointments' = [appointments EXCEPT ![id] = a4]
            /\ last' = [Success(args, "Appointment modified") EXCEPT
                            !.wrote = TRUE, !.changes = changes]
            /\ UNCHANGED <<users, userPhone, userName, now>>

\* ToolExecutor.retrieveAppointments: SupabaseClient.GetUpcomingAppointments for the
\* type "upcoming" (the default), SupabaseClient.GetAppointmentsByPhone otherwise
retrieveAppointments(s, type, fail) ==
    LET call == Call(s, ToolRetrieveAppointments)
        mine == { i \in DOMAIN appointments : appointments[i].user_phone = userPhone[s] }
        upcoming == { i \in mine : /\ appointments[i].date_time > now
                                   /\ appointments[i].status = StatusBooked }
        found == IF type \in {"", "upcoming"} THEN upcoming ELSE mine
    IN
    /\ last' = IF ~ Identified(s) THEN Failure(call, NotIdentified)
               ELSE IF fail = 1 THEN StoreError(call, "GetAppointments", "failed to retrieve appointments")
               ELSE [Success(call, "Found appointments") EXCEPT !.id = Cardinality(found)]
    /\ UNCHANGED <<users, appointments, userPhone, userName, now>>

\* ------------------------------------------------------------------ actions
\* Each tool is one action; its arguments range over the sets a specification
\* passes, and fail says which data-store call of the invocation fails (0: none).
IdentifyUser(SS, PP, NN, FF) ==
    \E s \in SS, p \in PP, n \in NN, f \in FF :
        /\ identifyUser(s, p, n, f)
        /\ identified' = IF last'.success
                         THEN [identified EXCEPT ![s] = [done |-> TRUE, phone |-> last'.phone]]
                         ELSE identified

BookAppointment(SS, DD, UU, PP, NN, FF) ==
    \E s \in SS, d \in DD, dur \in UU, p \in PP, n \in NN, f \in FF :
        /\ Len(appointments) < MaxAppts
        /\ bookAppointment(s, d, dur, p, n, f)
        /\ UNCHANGED identified

\* bookAppointment, lines 207-250, as one of several calls in flight: the call
\* that passes its tests holds the answer of CheckSlotAvailability until its
\* CreateAppointment; every other call ends here as bookAppointment ends it
Passes(s, dateArg, duration) ==
    /\ Identified(s)
    /\ dateArg.kind = "ok"
    /\ dateArg.t >= now
    /\ CheckSlotAvailability(appointments, dateArg.t, duration)

BookCheck(SS, DD, UU) ==
    \E s \in SS, d \in DD, dur \in UU :
        LET duration == IF dur = <<>> THEN DefaultDuration ELSE dur[1] IN
        /\ booking[s] = <<>>
        /\ Len(appointments) < MaxAppts
        /\ IF Passes(s, d, duration)
           THEN /\ booking' = [booking EXCEPT ![s] =
                                [date_time |-> d.t, duration |-> duration]]
                /\ UNCHANGED toolsVars
           ELSE /\ bookAppointment(s, d, dur, "", "", 0)
                /\ UNCHANGED <<identified, booking>>

\* bookAppointment, lines 252-280: CreateAppointment with status booked
BookCreate(SS) ==
    \E s \in SS :
        /\ booking[s] # <<>>
        /\ Len(appointments) < MaxAppts
        /\ appointments' = Append(appointments,
                [user_phone |-> userPhone[s], date_time |-> booking[s].date_time,
                 duration |-> booking[s].duration, purpose |-> "",
                 notes |-> Notes(""), status |-> StatusBooked])
        /\ last' = [Success([Call(s, ToolBookAppointment) EXCEPT
                                !.date_time = booking[s].date_time,
                                !.duration = booking[s].duration],
                            "Appointment successfully booked") EXCEPT
                        !.wrote = TRUE, !.id = Len(appointments) + 1]
        /\ booking' = [booking EXCEPT ![s] = <<>>]
        /\ UNCHANGED <<users, userPhone, userName, now, identified>>

RetrieveAppointments(SS, TT, FF) ==
    \E s \in SS, t \in TT, f \in FF :
        retrieveAppointments(s, t, f) /\ UNCHANGED identified

CancelAppointment(SS, II, RR, FF) ==
    \E s \in SS, id \in II, r \in RR, f \in FF :
        cancelAppointment(s, id, r, f) /\ UNCHANGED identified

ModifyAppointment(SS, DD, UU, PP, NN, FF) ==
    \E s \in SS, id \in 0..(MaxAppts + 1), d \in DD, dur \in UU,
       p \in PP, n \in NN, f \in FF :
        modifyAppointment(s, id, d, dur, p, n, f) /\ UNCHANGED identified

FetchSlots(SS, DD, FF) ==
    \E s \in SS, d \in DD, f \in FF :
        fetchSlots(s, d, f) /\ UNCHANGED identified

EndConversationTool(SS) ==
    \E s \in SS : endConversation(s) /\ UNCHANGED identified

UnknownTool(SS) ==
    \E s \in SS : unknownTool(s) /\ UNCHANGED identified

UnparsableArguments(SS, TT) ==
    \E s \in SS, t \in TT : unparsableArguments(s, t) /\ UNCHANGED identified

\* a direct availability query (the slot listings issue them)
CheckSlot(TT, UU) ==
    \E t \in TT, d \in UU :
        /\ last' = [NoResult EXCEPT !.tool = "check_slot",
                                     !.date_time = t, !.duration = d,
                                     !.success = CheckSlotAvailability(appointments, t, d)]
        /\ UNCHANGED <<users, appointments, userPhone, userName, now, identified>>

\* time passes
AdvanceClock(TT) ==
    \E t \in TT :
        /\ t > now
        /\ now' = t
        /\ UNCHANGED <<users, appointments, userPhone, userName, last, identified>>

ToolsInit ==
    /\ users = {}
    /\ appointments = <<>>
    /\ userPhone = [s \in Sessions |-> <<>>]
    /\ userName = [s \in Sessions |-> ""]
    /\ now = 0
    /\ last = NoResult
    /\ identified = [s \in Sessions |-> [done |-> FALSE, phone |-> <<>>]]
    /\ booking = [s \in Sessions |-> <<>>]

\* ------------------------------------------------------------------ agent
\* The session orchestrator. A critical section that holds VoiceAgent.mu without
\* blocking inside is one step, enabled when the lock can be taken.
AgentSession == "s1"
Turns == { <<"turn", i>> : i \in 1..MaxTurns }
EndCalls == { <<"end", i>> : i \in 1..MaxEndCalls }
Invocations == Turns \cup EndCalls
\* the outcomes of the three collaborator calls of endConversation
FetchOutcomes == {"ok", "failed"}
SummaryOutcomes == {"generated", "failed"}
SaveOutcomes == {"saved", "failed"}
NoLog == [fetch |-> "none", summary |-> "none", save |-> "none", notified |-> <<>>]

\* the holders of the lock are invocations; Audio is the SendAudio of the
\* connection, NoWriter says that nobody holds the write lock
Audio == <<"audio", 1>>
NoWriter == <<>>
CanLock == mu.writer = NoWriter /\ mu.readers = {}
CanRLock == mu.writer = NoWriter

\* the guard without its test of isProcessing: every invocation starts a turn
TurnGuardNoCheck(t) ==
    /\ turnPc[t] = "idle"
    /\ CanLock
    /\ isProcessing' = TRUE
    /\ turnPc' = [turnPc EXCEPT ![t] = "user"]
    /\ UNCHANGED <<toolsVars, mu, shouldEnd, messages, resp, endPc, ecPc,
                   triggers, ecStarted, summaries, saves, callEnds, ecLog,
                   onErrors, ttsVars, auditVars>>

\* ProcessUserInput, lines 242-249: the isProcessing guard
TurnGuard(t) ==
    /\ turnPc[t] = "idle"
    /\ CanLock
    /\ IF isProcessing
       THEN /\ turnPc' = [turnPc EXCEPT ![t] = "dropped"]
            /\ UNCHANGED isProcessing
       ELSE /\ isProcessing' = TRUE
            /\ turnPc' = [turnPc EXCEPT ![t] = "user"]
    /\ UNCHANGED <<toolsVars, mu, shouldEnd, messages, resp, endPc, ecPc,
                   triggers, ecStarted, summaries, saves, callEnds, ecLog,
                   onErrors, ttsVars, auditVars>>

\* ProcessUserInput, lines 257-264: the user message
TurnAppendUser(t) ==
    /\ turnPc[t] = "user"
    /\ CanLock
    /\ messages' = Append(messages, [role |-> "user", turn |-> t])
    /\ turnPc' = [turnPc EXCEPT ![t] = "chat"]
    /\ UNCHANGED <<toolsVars, mu, isProcessing, shouldEnd, resp, endPc, ecPc,
                   triggers, ecStarted, summaries, saves, callEnds, ecLog,
                   onErrors, ttsVars, auditVars>>

\* The audit records of the tool calls, VoiceAgent.toolCalls: the turn whose Chat
\* ran the tool, and whether the result has been recorded
Pending(t) == \E i \in 1..Len(toolCalls) : toolCalls[i].turn = t /\ ~ toolCalls[i].result

\* NewVoiceAgent, lines 101-113: the tool-call callback, which ExecuteTool runs
\* inside Chat before the tool; the record is appended under the lock, and
\* onToolCall is invoked once the lock is released
OnToolCall(t) ==
    /\ turnPc[t] = "chat"
    /\ ~ Pending(t)
    /\ Len(toolCalls) < MaxToolCalls
    /\ CanLock
    /\ toolCalls' = Append(toolCalls, [turn |-> t, result |-> FALSE])
    /\ UNCHANGED <<toolsVars, mu, isProcessing, shouldEnd, messages, turnPc, resp, endPc,
                   ecPc, triggers, ecStarted, summaries, saves, callEnds, ecLog,
                   onErrors, ttsVars, readerPc>>

\* NewVoiceAgent, lines 115-128: the tool-result callback, run by ExecuteTool after
\* the tool; the record of the call gets its result under the lock
OnToolResult(t) ==
    /\ turnPc[t] = "chat"
    /\ Pending(t)
    /\ CanLock
    /\ toolCalls' = [i \in 1..Len(toolCalls) |->
                        IF toolCalls[i].turn = t THEN [toolCalls[i] EXCEPT !.result = TRUE]
                        ELSE toolCalls[i]]
    /\ UNCHANGED <<toolsVars, mu, isProcessing, shouldEnd, messages, turnPc, resp, endPc,
                   ecPc, triggers, ecStarted, summaries, saves, callEnds, ecLog,
                   onErrors, ttsVars, readerPc>>

\* GetSession, GetMessages and GetToolCalls, lines 464-495: each is called, takes
\* the read lock, reads (GetSession also computes the costs), and the deferred
\* RUnlock runs when it returns. The three take and release the lock alike; a
\* reader is one call of one of them.
Readers == { <<"GetSession", 1>> }

GetSessionCall(r) ==
    /\ readerPc[r] = "idle"
    /\ readerPc' = [readerPc EXCEPT ![r] = "rlock"]
    /\ UNCHANGED <<toolsVars, mu, isProcessing, shouldEnd, messages, turnPc, resp, endPc,
                   ecPc, triggers, ecStarted, summaries, saves, callEnds, ecLog,
                   onErrors, ttsVars, toolCalls>>

GetSessionRLock(r) ==
    /\ readerPc[r] = "rlock"
    /\ CanRLock
    /\ mu' = [mu EXCEPT !.readers = @ \cup {r}]
    /\ readerPc' = [readerPc EXCEPT ![r] = "reading"]
    /\ UNCHANGED <<toolsVars, isProcessing, shouldEnd, messages, turnPc, resp, endPc,
                   ecPc, triggers, ecStarted, summaries, saves, callEnds, ecLog,
                   onErrors, ttsVars, toolCalls>>

\* the variant whose read lock is never released
GetSessionRUnlockKeeps(r) ==
    /\ readerPc[r] = "reading"
    /\ readerPc' = [readerPc EXCEPT ![r] = "done"]
    /\ UNCHANGED <<toolsVars, mu, isProcessing, shouldEnd, messages, turnPc, resp, endPc,
                   ecPc, triggers, ecStarted, summaries, saves, callEnds, ecLog,
                   onErrors, ttsVars, toolCalls>>

GetSessionRUnlock(r) ==
    /\ readerPc[r] = "reading"
    /\ mu' = [mu EXCEPT !.readers = @ \ {r}]
    /\ readerPc' = [readerPc EXCEPT ![r] = "done"]
    /\ UNCHANGED <<toolsVars, isProcessing, shouldEnd, messages, turnPc, resp, endPc,
                   ecPc, triggers, ecStarted, summaries, saves, callEnds, ecLog,
                   onErrors, ttsVars, toolCalls>>

\* ProcessUserInput, lines 266-276: llmService.Chat returns an error, an answer, or
\* the closing words of a turn that ran end_conversation; the tools it ran may
\* have bound the caller to the session's executor
TurnChat(t) ==
    /\ turnPc[t] = "chat"
    /\ ~ Pending(t)
    /\ \E r \in {"error", "answer", "end"}, bound \in BOOLEAN :
        /\ resp' = [resp EXCEPT ![t] = r]
        /\ turnPc' = [turnPc EXCEPT ![t] = IF r = "error" THEN "release" ELSE "assistant"]
        /\ userPhone' = IF bound THEN [userPhone EXCEPT ![AgentSession] = <<"1">>]
                        ELSE userPhone
        /\ onErrors' = IF r = "error" THEN [onErrors EXCEPT ![t] = @ + 1] ELSE onErrors
    /\ UNCHANGED <<users, appointments, userName, now, last, identified, mu,
                   isProcessing, shouldEnd, messages, endPc, ecPc,
                   triggers, ecStarted, summaries, saves, callEnds, ecLog, ttsVars, auditVars>>

\* ProcessUserInput, lines 278-288: the assistant message
TurnAppendAssistant(t) ==
    /\ turnPc[t] = "assistant"
    /\ CanLock
    /\ messages' = Append(messages, [role |-> "assistant", turn |-> t])
    /\ turnPc' = [turnPc EXCEPT ![t] = "speak"]
    /\ UNCHANGED <<toolsVars, mu, isProcessing, shouldEnd, resp, endPc, ecPc,
                   triggers, ecStarted, summaries, saves, callEnds, ecLog,
                   onErrors, ttsVars, auditVars>>

\* the speakers of a session: its turns and the greeting of Start
Greeting == <<"greeting", 1>>
Speakers == Turns \cup {Greeting}
NoSpeech == [len |-> 0, streamed |-> "none", rest |-> "none"]

\* synthesizeSpeech without its fall back: a failed Speak ends the utterance
synthesizeSpeechNoFallback(who, n, streamOk, restOk) ==
    IF n = 0 THEN UNCHANGED <<totalCharacters, speech, onErrors>>
    ELSE IF ttsClient
    THEN /\ totalCharacters' = totalCharacters + n
         /\ speech' = [speech EXCEPT ![who] =
                        [len |-> n, streamed |-> IF streamOk THEN "ok" ELSE "error",
                         rest |-> "none"]]
         /\ UNCHANGED onErrors
    ELSE /\ totalCharacters' = totalCharacters + n
         /\ speech' = [speech EXCEPT ![who] =
                        [len |-> n, streamed |-> "none",
                         rest |-> IF restOk THEN "ok" ELSE "error"]]
         /\ onErrors' = IF restOk THEN onErrors ELSE [onErrors EXCEPT ![who] = @ + 1]

\* synthesizeSpeech, lines 334-351, with StreamingClient.Speak (cartesia.go 122-144)
\* and synthesizeSpeechREST, lines 353-365, with Service.SynthesizeSpeech (48-51):
\* both calls add the length of the text to totalCharacters before they send
synthesizeSpeech(who, n, streamOk, restOk) ==
    IF n = 0 THEN UNCHANGED <<totalCharacters, speech, onErrors>>
    ELSE LET viaRest == ~ ttsClient \/ ~ streamOk IN
         /\ totalCharacters' = totalCharacters
                                + (IF ttsClient THEN n ELSE 0) + (IF viaRest THEN n ELSE 0)
         /\ speech' = [speech EXCEPT ![who] =
                        [len |-> n,
                         streamed |-> IF ~ ttsClient THEN "none"
                                      ELSE IF streamOk THEN "ok" ELSE "error",
                         rest |-> IF ~ viaRest THEN "none"
                                  ELSE IF restOk THEN "ok" ELSE "error"]]
         /\ onErrors' = IF viaRest /\ ~ restOk
                        THEN [onErrors EXCEPT ![who] = @ + 1] ELSE onErrors

\* ProcessUserInput, lines 290-296: onAgentResponse and synthesizeSpeech
TurnSpeak(t, LL, SS, RR) ==
    /\ turnPc[t] = "speak"
    /\ \E n \in LL, streamOk \in SS, restOk \in RR : synthesizeSpeech(t, n, streamOk, restOk)
    /\ turnPc' = [turnPc EXCEPT ![t] = "end?"]
    /\ UNCHANGED <<toolsVars, mu, isProcessing, shouldEnd, messages, resp, endPc,
                   ecPc, triggers, ecStarted, summaries, saves, callEnds, ecLog,
                   ttsClient, greetPc, auditVars>>

\* Start, lines 144-175: the streaming synthesis client, kept when it could be
\* created, and the greeting goroutine
Start(CC) ==
    /\ greetPc = "none"
    /\ \E ok \in CC : ttsClient' = ok
    /\ greetPc' = "append"
    /\ UNCHANGED <<toolsVars, mu, isProcessing, shouldEnd, messages, turnPc, resp, endPc,
                   ecPc, triggers, ecStarted, summaries, saves, callEnds, ecLog,
                   onErrors, totalCharacters, speech, auditVars>>

\* sendGreeting, lines 319-325: the greeting is appended under the lock
GreetAppend ==
    /\ greetPc = "append"
    /\ CanLock
    /\ messages' = Append(messages, [role |-> "assistant", turn |-> Greeting])
    /\ greetPc' = "speak"
    /\ UNCHANGED <<toolsVars, mu, isProcessing, shouldEnd, turnPc, resp, endPc,
                   ecPc, triggers, ecStarted, summaries, saves, callEnds, ecLog,
                   onErrors, ttsClient, totalCharacters, speech, auditVars>>

\* sendGreeting, lines 327-331: onAgentResponse and synthesizeSpeech
GreetSpeak(LL, SS, RR) ==
    /\ greetPc = "speak"
    /\ \E n \in LL, streamOk \in SS, restOk \in RR :
        synthesizeSpeech(Greeting, n, streamOk, restOk)
    /\ greetPc' = "done"
    /\ UNCHANGED <<toolsVars, mu, isProcessing, shouldEnd, messages, turnPc, resp, endPc,
                   ecPc, triggers, ecStarted, summaries, saves, callEnds, ecLog,
                   ttsClient, auditVars>>

\* ProcessUserInput, lines 298-304: a model-signalled end sets shouldEnd and
\* starts endConversation in a goroutine of its own
TurnCheckEnd(t) ==
    /\ turnPc[t] = "end?"
    /\ IF resp[t] = "end"
       THEN /\ CanLock
            /\ shouldEnd' = TRUE
            /\ ecPc' = [ecPc EXCEPT ![t] = "snapshot"]
            /\ ecStarted' = ecStarted + 1
            /\ triggers' = Append(triggers, "model")
       ELSE UNCHANGED <<shouldEnd, ecPc, ecStarted, triggers>>
    /\ turnPc' = [turnPc EXCEPT ![t] = "release"]
    /\ UNCHANGED <<toolsVars, mu, isProcessing, messages, resp, endPc,
                   summaries, saves, callEnds, ecLog,
                   onErrors, ttsVars, auditVars>>

\* ProcessUserInput, were its return to leave isProcessing as it is
TurnReleaseKeepsFlag(t) ==
    /\ turnPc[t] = "release"
    /\ turnPc' = [turnPc EXCEPT ![t] = "done"]
    /\ UNCHANGED <<toolsVars, mu, isProcessing, shouldEnd, messages, resp, endPc, ecPc,
                   triggers, ecStarted, summaries, saves, callEnds, ecLog, onErrors, ttsVars, auditVars>>

\* ProcessUserInput, lines 251-255: the deferred reset of isProcessing
TurnRelease(t) ==
    /\ turnPc[t] = "release"
    /\ CanLock
    /\ isProcessing' = FALSE
    /\ turnPc' = [turnPc EXCEPT ![t] = "done"]
    /\ UNCHANGED <<toolsVars, mu, shouldEnd, messages, resp, endPc, ecPc,
                   triggers, ecStarted, summaries, saves, callEnds, ecLog,
                   onErrors, ttsVars, auditVars>>

\* EndCall without its test of shouldEnd: every call runs endConversation
EndCallGuardNoCheck(e) ==
    /\ endPc[e] = "idle"
    /\ CanLock
    /\ triggers' = Append(triggers, "manual")
    /\ shouldEnd' = TRUE
    /\ endPc' = [endPc EXCEPT ![e] = "running"]
    /\ ecPc' = [ecPc EXCEPT ![e] = "snapshot"]
    /\ ecStarted' = ecStarted + 1
    /\ UNCHANGED <<toolsVars, mu, isProcessing, messages, turnPc, resp,
                   summaries, saves, callEnds, ecLog,
                   onErrors, ttsVars, auditVars>>

\* EndCall, lines 498-506: the shouldEnd guard, then endConversation in the caller
EndCallGuard(e) ==
    /\ endPc[e] = "idle"
    /\ CanLock
    /\ triggers' = Append(triggers, "manual")
    /\ IF shouldEnd
       THEN /\ endPc' = [endPc EXCEPT ![e] = "done"]
            /\ UNCHANGED <<shouldEnd, ecPc, ecStarted>>
       ELSE /\ shouldEnd' = TRUE
            /\ endPc' = [endPc EXCEPT ![e] = "running"]
            /\ ecPc' = [ecPc EXCEPT ![e] = "snapshot"]
            /\ ecStarted' = ecStarted + 1
    /\ UNCHANGED <<toolsVars, mu, isProcessing, messages, turnPc, resp,
                   summaries, saves, callEnds, ecLog,
                   onErrors, ttsVars, auditVars>>

\* EndCall returns when its endConversation has returned
EndCallReturn(e) ==
    /\ endPc[e] = "running"
    /\ ecPc[e] = "done"
    /\ endPc' = [endPc EXCEPT ![e] = "done"]
    /\ UNCHANGED <<toolsVars, mu, isProcessing, shouldEnd, messages, turnPc, resp,
                   ecPc, triggers, ecStarted, summaries, saves, callEnds, ecLog,
                   onErrors, ttsVars, auditVars>>

\* endConversation, lines 370-373: the copy of the messages under the read lock
EcSnapshot(i) ==
    /\ ecPc[i] = "snapshot"
    /\ CanRLock
    /\ ecPc' = [ecPc EXCEPT ![i] = "fetch"]
    /\ UNCHANGED <<toolsVars, mu, isProcessing, shouldEnd, messages, turnPc, resp,
                   endPc, triggers, ecStarted, summaries, saves, callEnds, ecLog,
                   onErrors, ttsVars, auditVars>>

\* endConversation, lines 377-391: the caller's appointments, when a caller is
\* bound; a failure of the fetch is logged and nothing more
EcFetch(i, OO) ==
    /\ ecPc[i] = "fetch"
    /\ \E o \in OO :
        ecLog' = [ecLog EXCEPT ![i].fetch =
                    IF userPhone[AgentSession] = <<>> THEN "skipped" ELSE o]
    /\ ecPc' = [ecPc EXCEPT ![i] = "summary"]
    /\ UNCHANGED <<toolsVars, mu, isProcessing, shouldEnd, messages, turnPc, resp,
                   endPc, triggers, ecStarted, summaries, saves, callEnds, onErrors, ttsVars, auditVars>>

\* endConversation, were a failure of GenerateSummary to end it
EcSummaryFailureReturns(i, OO) ==
    /\ ecPc[i] = "summary"
    /\ \E o \in OO :
        /\ ecLog' = [ecLog EXCEPT ![i].summary = o]
        /\ summaries' = IF o = "failed" THEN summaries ELSE summaries + 1
        /\ onErrors' = IF o = "failed" THEN [onErrors EXCEPT ![i] = @ + 1] ELSE onErrors
        /\ ecPc' = [ecPc EXCEPT ![i] = IF o = "failed" THEN "done" ELSE "save"]
    /\ UNCHANGED <<toolsVars, mu, isProcessing, shouldEnd, messages, turnPc, resp,
                   endPc, triggers, ecStarted, saves, callEnds, ttsVars, auditVars>>

\* endConversation, lines 393-422: GenerateSummary; when it fails, onError and the
\* placeholder summary
EcSummary(i, OO) ==
    /\ ecPc[i] = "summary"
    /\ \E o \in OO :
        /\ ecLog' = [ecLog EXCEPT ![i].summary =
                        IF o = "failed" THEN "placeholder" ELSE "generated"]
        /\ onErrors' = IF o = "failed" THEN [onErrors EXCEPT ![i] = @ + 1] ELSE onErrors
    /\ summaries' = summaries + 1
    /\ ecPc' = [ecPc EXCEPT ![i] = "save"]
    /\ UNCHANGED <<toolsVars, mu, isProcessing, shouldEnd, messages, turnPc, resp,
                   endPc, triggers, ecStarted, saves, callEnds, ttsVars, auditVars>>

\* endConversation, lines 424-431: SaveCallSummary; its error is logged
EcSave(i, OO) ==
    /\ ecPc[i] = "save"
    /\ \E o \in OO : ecLog' = [ecLog EXCEPT ![i].save = o]
    /\ saves' = saves + 1
    /\ ecPc' = [ecPc EXCEPT ![i] = "notify"]
    /\ UNCHANGED <<toolsVars, mu, isProcessing, shouldEnd, messages, turnPc, resp,
                   endPc, triggers, ecStarted, summaries, callEnds, onErrors, ttsVars, auditVars>>

\* endConversation, lines 433-441: onCallEnd(summary, cost)
EcNotify(i) ==
    /\ ecPc[i] = "notify"
    /\ callEnds' = callEnds + 1
    /\ ecLog' = [ecLog EXCEPT ![i].notified = <<ecLog[i].summary, "cost">>]
    /\ ecPc' = [ecPc EXCEPT ![i] = "done"]
    /\ UNCHANGED <<toolsVars, mu, isProcessing, shouldEnd, messages, turnPc, resp,
                   endPc, triggers, ecStarted, summaries, saves, onErrors, ttsVars, auditVars>>

\* the agent's state besides the speech-to-text client
turnVars == <<isProcessing, shouldEnd, messages, turnPc, resp, endPc, ecPc,
              triggers, ecStarted, summaries, saves, callEnds, ecLog,
                   onErrors, ttsVars, auditVars>>

\* SendAudio, lines 230-235: the test of sttClient, made without the lock
SendAudioBegin ==
    /\ audioPc = "idle"
    /\ audioPc' = IF sttClient THEN "send" ELSE "lock"
    /\ UNCHANGED <<toolsVars, chatVars, reminderVars, bookVars, turnVars, cancelled, mu, sttClient>>

\* initSTT, lines 179-184: the lock is taken, and kept until the function returns
InitSttLock ==
    /\ audioPc = "lock"
    /\ CanLock
    /\ IF sttClient
       THEN audioPc' = "send" /\ UNCHANGED mu
       ELSE audioPc' = "dial" /\ mu' = [mu EXCEPT !.writer = Audio]
    /\ UNCHANGED <<toolsVars, chatVars, reminderVars, bookVars, turnVars, cancelled, sttClient>>

\* initSTT, lines 186-211: deepgramService.NewStreamingClient dials the service;
\* the deferred Unlock runs when it has answered
InitSttDial ==
    /\ audioPc = "dial"
    /\ \E ok \in BOOLEAN :
        /\ sttClient' = ok
        /\ audioPc' = IF ok THEN "send" ELSE "idle"
    /\ mu' = [mu EXCEPT !.writer = NoWriter]
    /\ UNCHANGED <<toolsVars, chatVars, reminderVars, bookVars, turnVars, cancelled>>

\* SendAudio, line 235: the audio is written to the connection of the client that
\* a.sttClient holds now; on a nil client the call dereferences nil and panics
SendAudioWrite ==
    /\ audioPc = "send"
    /\ audioPc' = IF sttClient THEN "idle" ELSE "panic"
    /\ UNCHANGED <<toolsVars, chatVars, reminderVars, bookVars, turnVars, cancelled, mu, sttClient>>

\* initSTT, lines 197-205: the error callback of the client resets sttClient
SttOnError ==
    /\ sttClient
    /\ CanLock
    /\ sttClient' = FALSE
    /\ UNCHANGED <<toolsVars, chatVars, reminderVars, bookVars, turnVars, cancelled, mu, audioPc>>

\* Stop, lines 215-225, called when the connection has closed: cancel(), and the
\* streaming clients are closed
Stop ==
    /\ ~ cancelled
    /\ cancelled' = TRUE
    /\ UNCHANGED <<toolsVars, chatVars, reminderVars, bookVars, turnVars, mu, sttClient,
                   audioPc>>

\* The access to the session's shared state that the next step of each goroutine
\* makes: the goroutine, the field, whether it writes, and whether the goroutine
\* holds VoiceAgent.mu while it does.
Access(who, field, write, locked) ==
    [who |-> who, field |-> field, write |-> write, locked |-> locked]

Accesses ==
    \* ProcessUserInput, lines 257-264 and 278-288: the appends to a.messages
    { Access(t, "messages", TRUE, TRUE) :
        t \in { u \in Turns : turnPc[u] \in {"user", "assistant"} } }
    \* ProcessUserInput, lines 267-268: len(a.messages) and the slice handed to Chat
    \cup { Access(t, "messages", FALSE, FALSE) : t \in { u \in Turns : turnPc[u] = "chat" } }
    \* SetUserIdentity, lines 32-35 of the executor, reached from Chat
    \cup { Access(t, "userPhone", TRUE, FALSE) : t \in { u \in Turns : turnPc[u] = "chat" } }
    \* ProcessUserInput, lines 298-304, and EndCall, lines 498-504: shouldEnd
    \cup { Access(t, "shouldEnd", TRUE, TRUE) :
            t \in { u \in Turns : turnPc[u] = "end?" /\ resp[u] = "end" } }
    \cup { Access(e, "shouldEnd", TRUE, TRUE) : e \in { f \in EndCalls : endPc[f] = "idle" } }
    \* endConversation, lines 370-373: the copy of a.messages under RLock
    \cup { Access(<<"ec", i>>, "messages", FALSE, TRUE) :
            i \in { j \in Invocations : ecPc[j] = "snapshot" } }
    \* endConversation, line 379: toolExecutor.GetUserPhone()
    \cup { Access(<<"ec", i>>, "userPhone", FALSE, FALSE) :
            i \in { j \in Invocations : ecPc[j] = "fetch" } }
    \* SendAudio, lines 230 and 235: a.sttClient read without the lock
    \cup (IF audioPc \in {"idle", "send"}
          THEN { Access(Audio, "sttClient", FALSE, FALSE) } ELSE {})
    \* initSTT, lines 182 and 210: a.sttClient read and written under the lock
    \cup (IF audioPc \in {"lock", "dial"}
          THEN { Access(Audio, "sttClient", TRUE, TRUE) } ELSE {})
    \* initSTT, lines 202-204: the error callback, in the client's reader goroutine
    \cup (IF sttClient THEN { Access(<<"stt", 1>>, "sttClient", TRUE, TRUE) } ELSE {})

AgentInit ==
    /\ sttClient = FALSE
    /\ cancelled = FALSE
    /\ audioPc = "idle"
    /\ mu = [writer |-> NoWriter, readers |-> {}]
    /\ isProcessing = FALSE
    /\ shouldEnd = FALSE
    /\ messages = <<>>
    /\ turnPc = [t \in Turns |-> "idle"]
    /\ resp = [t \in Turns |-> "none"]
    /\ endPc = [e \in EndCalls |-> "idle"]
    /\ ecPc = [i \in Invocations |-> "none"]
    /\ triggers = <<>>
    /\ ecStarted = 0
    /\ summaries = 0
    /\ saves = 0
    /\ callEnds = 0
    /\ ecLog = [i \in Invocations |-> NoLog]
    /\ onErrors = [i \in Invocations \cup {Greeting} |-> 0]
    /\ ttsClient = FALSE
    /\ totalCharacters = 0
    /\ greetPc = "none"
    /\ speech = [w \in Speakers |-> NoSpeech]
    /\ toolCalls = <<>>
    /\ readerPc = [r \in Readers |-> "idle"]


\* ------------------------------------------------------------------ turn engine
\* Service.Chat. A tool call of the model's response is its function name and
\* whether its arguments parse as a JSON object; "other" stands for the tools that
\* read or change the calendar, whose outcome the store decides.
ToolCalls == [name : {ToolEndConversation, "other"}, argsOk : BOOLEAN]
RECURSIVE SeqsUpTo(_, _)
SeqsUpTo(S, n) ==
    IF n = 0 THEN { <<>> }
    ELSE SeqsUpTo(S, n - 1) \cup
         { Append(q, x) : q \in { r \in SeqsUpTo(S, n - 1) : Len(r) = n - 1 }, x \in S }
Batches == SeqsUpTo(ToolCalls, MaxBatch) \ { <<>> }

NoResponse == [kind |-> "none", ShouldEnd |-> FALSE, Content |-> ""]

\* ToolExecutor.endConversation: the payload always carries should_end = true
endConversationTool == [success |-> TRUE, should_end |-> TRUE]

\* history: one CreateChatCompletion call, with what had happened when it was made
Completion(tools, ok) ==
    [tools |-> tools, ok |-> ok, round |-> rounds,
     executed |-> idx - 1, msgs |-> Len(openAIMessages)]

\* Chat, lines 175-192: the completion call of a round, with the tool catalog
ChatComplete ==
    /\ chatPc = "call"
    /\ \/ \* the call fails, or the response has no choice
          /\ completions' = Append(completions, Completion(TRUE, FALSE))
          /\ chatResp' = [NoResponse EXCEPT !.kind = "error"]
          /\ chatPc' = "returned"
          /\ UNCHANGED <<batch, idx, chatEnd, openAIMessages, rounds>>
       \/ \* no tool call: the content is the answer (lines 263-268)
          /\ completions' = Append(completions, Completion(TRUE, TRUE))
          /\ chatResp' = [NoResponse EXCEPT !.kind = "ok", !.Content = "answer"]
          /\ chatPc' = "returned"
          /\ UNCHANGED <<batch, idx, chatEnd, openAIMessages, rounds>>
       \/ \* tool calls (lines 195-200)
          \E b \in Batches :
            /\ rounds < MaxRounds
            /\ completions' = Append(completions, Completion(TRUE, TRUE))
            /\ batch' = b
            /\ idx' = 1
            /\ chatEnd' = FALSE
            /\ rounds' = rounds + 1
            /\ openAIMessages' = Append(openAIMessages, [role |-> "assistant", call |-> 0, tool |-> "", error |-> FALSE])
            /\ chatPc' = "tools"
            /\ UNCHANGED chatResp
    /\ UNCHANGED <<toolsVars, bookVars, agentVars>>

\* the tool loop, were a tool's error to end the batch
ChatExecuteToolStopsOnError ==
    /\ chatPc = "tools"
    /\ idx <= Len(batch)
    /\ \E storeFails \in BOOLEAN :
        LET tc == batch[idx]
            err == ~ tc.argsOk \/ (tc.name = "other" /\ storeFails)
            ends == /\ ~ err
                    /\ tc.name = ToolEndConversation
                    /\ endConversationTool.should_end
        IN  /\ (tc.name = ToolEndConversation => ~ storeFails)
            /\ chatEnd' = (chatEnd \/ ends)
            /\ openAIMessages' = Append(openAIMessages,
                                    [role |-> "tool", call |-> idx, tool |-> tc.name,
                                     error |-> err])
            /\ idx' = IF err THEN Len(batch) + 1 ELSE idx + 1
    /\ UNCHANGED <<toolsVars, bookVars, agentVars, chatPc, batch, chatResp, rounds, completions>>

\* Chat, lines 201-227: one tool call of the batch; storeFails says whether the
\* tool returned a hard error for a reason of its own
ChatExecuteTool ==
    /\ chatPc = "tools"
    /\ idx <= Len(batch)
    /\ \E storeFails \in BOOLEAN :
        LET tc == batch[idx]
            err == ~ tc.argsOk \/ (tc.name = "other" /\ storeFails)
            ends == /\ ~ err
                    /\ tc.name = ToolEndConversation
                    /\ endConversationTool.should_end
        IN  /\ (tc.name = ToolEndConversation => ~ storeFails)
            /\ chatEnd' = (chatEnd \/ ends)
            /\ openAIMessages' = Append(openAIMessages,
                                    [role |-> "tool", call |-> idx, tool |-> tc.name,
                                     error |-> err])
    /\ idx' = idx + 1
    /\ UNCHANGED <<toolsVars, bookVars, agentVars, chatPc, batch, chatResp, rounds, completions>>

\* the final call, but a failure of it is returned as the failure of the turn
ChatFinalFailureIsError ==
    /\ chatPc = "tools"
    /\ idx > Len(batch)
    /\ chatEnd
    /\ \E ok \in BOOLEAN :
        /\ completions' = Append(completions, Completion(FALSE, ok))
        /\ chatResp' = IF ok THEN [kind |-> "ok", ShouldEnd |-> TRUE, Content |-> "closing"]
                              ELSE [NoResponse EXCEPT !.kind = "error"]
    /\ chatPc' = "returned"
    /\ UNCHANGED <<toolsVars, bookVars, agentVars, batch, idx, chatEnd, openAIMessages, rounds>>

\* Chat, lines 229-257: after a batch that asked to end, the final completion call
\* without the tool catalog; the call returns ShouldEnd also when it fails
ChatFinal ==
    /\ chatPc = "tools"
    /\ idx > Len(batch)
    /\ chatEnd
    /\ \E ok \in BOOLEAN :
        /\ completions' = Append(completions, Completion(FALSE, ok))
        /\ chatResp' = [kind |-> "ok", ShouldEnd |-> TRUE,
                        Content |-> IF ok THEN "closing" ELSE "Thank you for calling. Goodbye!"]
    /\ chatPc' = "returned"
    /\ UNCHANGED <<toolsVars, bookVars, agentVars, batch, idx, chatEnd, openAIMessages, rounds>>

\* Chat, lines 259-260: the next round
ChatContinue ==
    /\ chatPc = "tools"
    /\ idx > Len(batch)
    /\ ~ chatEnd
    /\ chatPc' = "call"
    /\ UNCHANGED <<toolsVars, bookVars, agentVars, batch, idx, chatEnd, openAIMessages, chatResp,
                   rounds, completions>>

ChatInit ==
    /\ chatPc = "call"
    /\ batch = <<>>
    /\ idx = 1
    /\ chatEnd = FALSE
    /\ openAIMessages = <<>>
    /\ chatResp = NoResponse
    /\ rounds = 0
    /\ completions = <<>>

\* ------------------------------------------------------------------ reminders
\* The reminder scheduler. Every section that holds ReminderService.mu is one step;
\* the steps of a tick interleave with AddAppointment and RemoveAppointment of
\* other goroutines, with the store and with the clock.
ReminderType24Hour == "24_hours"
ReminderType1Hour == "1_hour"
ReminderTypeOnDay == "on_day"
\* the order in which checkReminders looks at the types
ReminderTypes == <<ReminderType24Hour, ReminderType1Hour, ReminderTypeOnDay>>

ApptIds == 1..MaxAppts

\* time.Time.YearDay and time.Time.Year, the epoch being the start of a year
YearDay(t) == (t \div Day) % 365
Year(t) == t \div (365 * Day)
isNextDay(n, appointmentTime) ==
    YearDay(n) # YearDay(appointmentTime) \/ Year(n) # Year(appointmentTime)

\* checkReminders, lines 126, 132 and 138: the condition of a type besides its flag
Due(type, timeUntilAppointment, n, dateTime) ==
    /\ timeUntilAppointment > 0
    /\ CASE type = ReminderType24Hour -> timeUntilAppointment <= 24 * Hour + Minute
         [] type = ReminderType1Hour -> timeUntilAppointment <= Hour + Minute
         [] type = ReminderTypeOnDay -> /\ timeUntilAppointment <= 24 * Hour
                                        /\ isNextDay(n, dateTime)

Idle == [pc |-> "idle", now |-> 0, copy |-> [id \in ApptIds |-> 0], pending |-> {},
         id |-> 0, k |-> 0, until |-> 0, at |-> 0,
         \* history: how the tick found each appointment, and which ones it reminded
         seen |-> [id \in ApptIds |-> "none"], sent |-> {},
         \* history: the time of the tick before this one, if there was one
         prev |-> <<>>]

NoneFired == [type \in {ReminderTypes[k] : k \in 1..Len(ReminderTypes)} |-> 0]

\* AddAppointment: a fresh record replaces whatever the map held for the id
AddAppointment(II) ==
    \E id \in II :
        /\ Len(records) < MaxRecords
        /\ records' = Append(records, [RemindersSent |-> {}, NextCheck |-> now])
        /\ reminders' = [reminders EXCEPT ![id] = Len(records) + 1]
        /\ fired' = [fired EXCEPT ![id] = NoneFired]
        /\ UNCHANGED <<toolsVars, bookVars, agentVars, chatVars, tick>>

\* GetUpcomingAppointmentsInWindow: booked appointments with from <= date_time <= to,
\* the bounds formatted as RFC 3339
GetUpcomingAppointmentsInWindow(from, to) ==
    { id \in DOMAIN appointments :
        /\ appointments[id].status = StatusBooked
        /\ appointments[id].date_time >= FormatRFC3339(from)
        /\ appointments[id].date_time <= FormatRFC3339(to) }

\* AddAppointment for each id of a set, in ascending order
RECURSIVE addAll(_, _, _)
addAll(ids, recs, rems) ==
    IF ids = {} THEN <<recs, rems>>
    ELSE LET id == CHOOSE i \in ids : \A j \in ids : i <= j
         IN  addAll(ids \ {id},
                    Append(recs, [RemindersSent |-> {}, NextCheck |-> now]),
                    [rems EXCEPT ![id] = Len(recs) + 1])

\* LoadPendingAppointments: AddAppointment for every booked appointment of the next
\* 30 days
LoadPendingAppointments ==
    LET loaded == GetUpcomingAppointmentsInWindow(now, now + 30 * Day)
        added == addAll(loaded, records, reminders)
    IN  /\ Len(records) + Cardinality(loaded) <= MaxRecords
        /\ records' = added[1]
        /\ reminders' = added[2]
        /\ fired' = [id \in ApptIds |-> IF id \in loaded THEN NoneFired ELSE fired[id]]
        /\ UNCHANGED <<toolsVars, bookVars, agentVars, chatVars, tick>>

RemoveAppointment(II) ==
    \E id \in II :
        /\ reminders[id] # 0
        /\ reminders' = [reminders EXCEPT ![id] = 0]
        /\ UNCHANGED <<toolsVars, bookVars, agentVars, chatVars, records, tick, fired>>

\* checkReminders, lines 101-108: the copy of the map (ids to the same records)
TickBegin ==
    /\ tick.pc = "idle"
    /\ tick' = [Idle EXCEPT !.pc = "next", !.now = now, !.copy = reminders,
                            !.pending = { id \in ApptIds : reminders[id] # 0 },
                            !.prev = tick.prev]
    /\ UNCHANGED <<toolsVars, bookVars, agentVars, chatVars, reminders, records, fired>>

\* checkReminders, lines 110-123: the next appointment of the copy, in map order
TickFetch ==
    /\ tick.pc = "next"
    /\ \E id \in tick.pending, err \in BOOLEAN :
        LET rest == [tick EXCEPT !.pending = @ \ {id}]
        IN  IF err
            THEN tick' = [rest EXCEPT !.seen[id] = "error"] /\ UNCHANGED reminders
            ELSE IF id > Len(appointments) \/ appointments[id].status # StatusBooked
            THEN /\ tick' = [rest EXCEPT !.seen[id] = "gone"]
                 /\ reminders' = [reminders EXCEPT ![id] = 0]
            ELSE /\ tick' = [rest EXCEPT !.pc = "check", !.id = id, !.k = 1,
                                         !.at = appointments[id].date_time,
                                         !.until = appointments[id].date_time - now]
                 /\ UNCHANGED reminders
    /\ UNCHANGED <<toolsVars, bookVars, agentVars, chatVars, records, fired>>

\* checkReminders, lines 126-127, 132-133, 138-139, and sendReminder: the flag of
\* the copied record, the condition and the callback
TickCheck ==
    /\ tick.pc = "check"
    /\ LET type == ReminderTypes[tick.k]
       IN  IF /\ type \notin records[tick.copy[tick.id]].RemindersSent
              /\ Due(type, tick.until, tick.now, tick.at)
           THEN /\ fired' = [fired EXCEPT ![tick.id][type] = @ + 1]
                /\ tick' = [tick EXCEPT !.pc = "mark", !.sent = @ \cup {tick.id}]
           ELSE /\ tick' = IF tick.k < Len(ReminderTypes)
                           THEN [tick EXCEPT !.k = @ + 1]
                           ELSE [tick EXCEPT !.pc = "passed"]
                /\ UNCHANGED fired
    /\ UNCHANGED <<toolsVars, bookVars, agentVars, chatVars, reminders, records>>

\* markReminderSent, but the flag is not kept
TickMarkForgets ==
    /\ tick.pc = "mark"
    /\ records' = records
    /\ tick' = IF tick.k < Len(ReminderTypes)
               THEN [tick EXCEPT !.pc = "check", !.k = @ + 1]
               ELSE [tick EXCEPT !.pc = "passed"]
    /\ UNCHANGED <<toolsVars, bookVars, agentVars, chatVars, reminders, fired>>

\* markReminderSent: the flag goes to the record the map holds now, if any
TickMark ==
    /\ tick.pc = "mark"
    /\ records' = IF reminders[tick.id] # 0
                  THEN [records EXCEPT ![reminders[tick.id]].RemindersSent =
                                        @ \cup {ReminderTypes[tick.k]}]
                  ELSE records
    /\ tick' = IF tick.k < Len(ReminderTypes)
               THEN [tick EXCEPT !.pc = "check", !.k = @ + 1]
               ELSE [tick EXCEPT !.pc = "passed"]
    /\ UNCHANGED <<toolsVars, bookVars, agentVars, chatVars, reminders, fired>>

\* checkReminders, but an appointment whose time has passed stays tracked
TickPassedKeeps ==
    /\ tick.pc = "passed"
    /\ reminders' = reminders
    /\ tick' = [tick EXCEPT !.pc = "next", !.id = 0, !.k = 0, !.until = 0, !.at = 0,
                            !.seen[tick.id] = IF tick.until < 0 THEN "elapsed" ELSE "live"]
    /\ UNCHANGED <<toolsVars, bookVars, agentVars, chatVars, records, fired>>

\* checkReminders, lines 143-146
TickPassed ==
    /\ tick.pc = "passed"
    /\ reminders' = IF tick.until < 0 THEN [reminders EXCEPT ![tick.id] = 0] ELSE reminders
    /\ tick' = [tick EXCEPT !.pc = "next", !.id = 0, !.k = 0, !.until = 0, !.at = 0,
                            !.seen[tick.id] = IF tick.until < 0 THEN "elapsed" ELSE "live"]
    /\ UNCHANGED <<toolsVars, bookVars, agentVars, chatVars, records, fired>>

\* checkReminders returns
TickEnd ==
    /\ tick.pc = "next"
    /\ tick.pending = {}
    /\ tick' = [Idle EXCEPT !.prev = <<tick.now>>]
    /\ UNCHANGED <<toolsVars, bookVars, agentVars, chatVars, reminders, records, fired>>

ReminderInit ==
    /\ reminders = [id \in ApptIds |-> 0]
    /\ records = <<>>
    /\ tick = Idle
    /\ fired = [id \in ApptIds |-> NoneFired]

Init == ToolsInit /\ AgentInit /\ ChatInit /\ ReminderInit

\* ------------------------------------------------------------------ SpecReminder
\* One caller books and cancels appointments at ApptAt while the scheduler, which
\* is given the first appointment to track (before or after it exists, and again
\* while it is tracked), ticks and the clock moves through the windows of ApptAt.
ApptAt == 2 * Day + 30 * Minute
ReminderClock == { ApptAt - Day, ApptAt - 30 * Minute, ApptAt + Minute }

ReminderNext ==
    \/ IdentifyUser({"s1"}, {<<"1">>}, {"Jane"}, {0}) /\ UNCHANGED othersOfTools
    \/ BookAppointment({"s1"}, {DateArg(ApptAt)}, {<<>>}, {""}, {""}, {0}) /\ UNCHANGED othersOfTools
    \/ CancelAppointment({"s1"}, ApptIds, {""}, {0}) /\ UNCHANGED othersOfTools
    \/ AdvanceClock(ReminderClock) /\ UNCHANGED othersOfTools
    \/ AddAppointment({1})
    \/ RemoveAppointment({1})
    \/ TickBegin
    \/ TickFetch
    \/ TickCheck
    \/ TickMark
    \/ TickPassed
    \/ TickEnd

SpecReminder == Init /\ [][ReminderNext]_vars

\* The scheduler is handed the appointment again while it tracks it: by
\* AddAppointment, and by LoadPendingAppointments (a reload of the next 30 days).
ReloadNext ==
    \/ IdentifyUser({"s1"}, {<<"1">>}, {"Jane"}, {0}) /\ UNCHANGED othersOfTools
    \/ BookAppointment({"s1"}, {DateArg(ApptAt)}, {<<>>}, {""}, {""}, {0}) /\ UNCHANGED othersOfTools
    \/ AdvanceClock(ReminderClock) /\ UNCHANGED othersOfTools
    \/ LoadPendingAppointments
    \/ AddAppointment({1})
    \/ TickBegin
    \/ TickFetch
    \/ TickCheck
    \/ TickMark
    \/ TickPassed
    \/ TickEnd

SpecReload == Init /\ [][ReloadNext]_vars

\* ------------------------------------------------------------------ SpecChat
\* One call of Service.Chat, for every sequence of responses of the model.
ChatNext ==
    \/ ChatComplete
    \/ ChatExecuteTool
    \/ ChatFinal
    \/ ChatContinue

SpecChat == Init /\ [][ChatNext /\ UNCHANGED reminderVars]_vars

\* Chat is straight-line code around calls that return: a call in progress goes on
SpecChatFair == SpecChat /\ WF_vars(ChatNext /\ UNCHANGED reminderVars)

\* ------------------------------------------------------------------ SpecSlots
\* One caller and the time dimension of the calendar: every instant, duration and
\* data-store failure, with the texts fixed.
Durations == { DefaultDuration, 0, 1 }

SlotsNext ==
    \/ IdentifyUser({"s1"}, {<<"1">>}, {"Jane"}, {0})
    \/ BookAppointment({"s1"}, DateArgs, DurationArgs, {""}, {""}, {0})
    \/ CancelAppointment({"s1"}, ApptArgs, {""}, {0})
    \/ ModifyAppointment({"s1"}, DateArgs, DurationArgs, {""}, {""}, {0})
    \/ CheckSlot(Instants, Durations)
    \/ AdvanceClock(Instants)

SpecSlots == Init /\ [][SlotsNext /\ UNCHANGED <<agentVars, chatVars, reminderVars, bookVars>>]_vars

\* ------------------------------------------------------------------ SpecIdentity
\* Two sessions and the identity dimension: every phone_number and name argument
\* and every data-store failure of identify_user; the other tools are invoked with
\* arguments that stop them right after their identification check.
IdentityNext ==
    \/ IdentifyUser(Sessions, RawPhones, Names, 0..2)
    \/ BookAppointment(Sessions, {NoDateArg}, {<<>>}, {""}, {""}, {0})
    \/ RetrieveAppointments(Sessions, {""}, {0})
    \/ CancelAppointment(Sessions, ApptArgs, {""}, {0})
    \/ ModifyAppointment(Sessions, {NoDateArg}, {<<>>}, {""}, {""}, {0})

SpecIdentity == Init /\ [][IdentityNext /\ UNCHANGED <<agentVars, chatVars, reminderVars, bookVars>>]_vars

\* ------------------------------------------------------------------ SpecStore
\* One caller, every tool of the executor and every data-store call of each that
\* can fail, on the slots of one day.
SlotDay == Day
StoreDates == { NoDateArg, BadDateArg, DateArg(SlotAt(SlotDay, 2)) }
ListingDates == { NoDateArg, BadDateArg, DateArg(SlotDay) }
FailingSlots == { {}, {2}, {SlotsPerDay} }
ToolNames ==
    { ToolIdentifyUser, ToolFetchSlots, ToolBookAppointment, ToolRetrieveAppointments,
      ToolCancelAppointment, ToolModifyAppointment, ToolEndConversation, "unknown" }

StoreNext ==
    \/ IdentifyUser({"s1"}, {<<>>, <<"1">>}, {"Jane"}, 0..2)
    \/ FetchSlots({"s1"}, ListingDates, FailingSlots)
    \/ BookAppointment({"s1"}, StoreDates, {<<>>}, {""}, {""}, 0..2)
    \/ RetrieveAppointments({"s1"}, {""}, 0..1)
    \/ CancelAppointment({"s1"}, ApptArgs, {""}, 0..2)
    \/ ModifyAppointment({"s1"}, StoreDates, {<<>>}, {""}, {"fasting"}, 0..3)
    \/ EndConversationTool({"s1"})
    \/ UnknownTool({"s1"})
    \/ UnparsableArguments({"s1"}, ToolNames)
    \/ AdvanceClock({ SlotAt(SlotDay, 1) + Minute })

SpecStore == Init /\ [][StoreNext /\ UNCHANGED othersOfTools]_vars

\* ------------------------------------------------------------------ SpecEdits
\* One session that identifies as either of two callers, again and again; their
\* appointments, one after the other at one instant; and every cancellation and every
\* modification of purpose and notes, of the bound caller's appointments and of
\* the other caller's, on a data store that answers.
EditPhones == { <<"1">>, <<"2">> }
EditDates == { DateArg(Day) }
Purposes == {"", "checkup"}
NoteTexts == {"", "fasting"}
Reasons == {"", "travelling"}

EditsNext ==
    \/ IdentifyUser({"s1"}, EditPhones, {"Jane"}, {0})
    \/ BookAppointment({"s1"}, EditDates, {<<>>}, {""}, {""}, {0})
    \/ CancelAppointment({"s1"}, ApptArgs, Reasons, {0})
    \/ ModifyAppointment({"s1"}, {NoDateArg}, {<<>>}, Purposes, NoteTexts, {0})

SpecEdits == Init /\ [][EditsNext /\ UNCHANGED othersOfTools]_vars

\* ------------------------------------------------------------------ SpecAgent
\* One session: MaxTurns finalized transcripts and MaxEndCalls end_call requests,
\* arriving at any moment, and the endConversation runs they start.
AgentNext ==
    \/ \E t \in Turns : TurnGuard(t)
    \/ \E t \in Turns : TurnAppendUser(t)
    \/ \E t \in Turns : TurnChat(t)
    \/ \E t \in Turns : TurnAppendAssistant(t)
    \/ \E t \in Turns : TurnSpeak(t, {1}, {TRUE}, {TRUE})
    \/ \E t \in Turns : TurnCheckEnd(t)
    \/ \E t \in Turns : TurnRelease(t)
    \/ \E e \in EndCalls : EndCallGuard(e)
    \/ \E e \in EndCalls : EndCallReturn(e)
    \/ \E i \in Invocations : EcSnapshot(i)
    \/ \E i \in Invocations : EcFetch(i, {"ok"})
    \/ \E i \in Invocations : EcSummary(i, {"generated"})
    \/ \E i \in Invocations : EcSave(i, {"saved"})
    \/ \E i \in Invocations : EcNotify(i)

SpecAgent == Init /\ [][AgentNext /\ UNCHANGED <<chatVars, reminderVars, bookVars, sttVars>>]_vars

\* ------------------------------------------------------------------ SpecAudio
\* One turn and one EndCall of a session, and the audio of its connection: the
\* lazy start of the speech-to-text client, its failures and its restarts.
AudioTurns == { <<"turn", 1>> }
AudioEnds == { <<"end", 1>> }
AudioRuns == AudioTurns \cup AudioEnds
others == <<chatVars, reminderVars, bookVars, sttVars>>

AudioNext ==
    \/ (\E t \in AudioTurns : TurnGuard(t)) /\ UNCHANGED others
    \/ (\E t \in AudioTurns : TurnAppendUser(t)) /\ UNCHANGED others
    \/ (\E t \in AudioTurns : TurnChat(t)) /\ UNCHANGED others
    \/ (\E t \in AudioTurns : TurnAppendAssistant(t)) /\ UNCHANGED others
    \/ (\E t \in AudioTurns : TurnSpeak(t, {1}, {TRUE}, {TRUE})) /\ UNCHANGED others
    \/ (\E t \in AudioTurns : TurnCheckEnd(t)) /\ UNCHANGED others
    \/ (\E t \in AudioTurns : TurnRelease(t)) /\ UNCHANGED others
    \/ (\E e \in AudioEnds : EndCallGuard(e)) /\ UNCHANGED others
    \/ (\E e \in AudioEnds : EndCallReturn(e)) /\ UNCHANGED others
    \/ (\E i \in AudioRuns : EcSnapshot(i)) /\ UNCHANGED others
    \/ (\E i \in AudioRuns : EcFetch(i, {"ok"})) /\ UNCHANGED others
    \/ (\E i \in AudioRuns : EcSummary(i, {"generated"})) /\ UNCHANGED others
    \/ (\E i \in AudioRuns : EcSave(i, {"saved"})) /\ UNCHANGED others
    \/ (\E i \in AudioRuns : EcNotify(i)) /\ UNCHANGED others
    \/ Stop
    \/ SendAudioBegin
    \/ InitSttLock
    \/ InitSttDial
    \/ SendAudioWrite
    \/ SttOnError

SpecAudio == Init /\ [][AudioNext]_vars

\* Two sessions, each with its caller, booking around the same hour while the
\* other's book_appointment call is in flight. The starts are whole seconds and
\* the durations positive.
BookingDates == { DateArg(Hour), DateArg(Hour + 15 * Minute), DateArg(2 * Hour) }
BookingNext ==
    \/ IdentifyUser(Sessions, {<<"1">>, <<"2">>}, {"Jane"}, {0}) /\ UNCHANGED bookVars
    \/ BookCheck(Sessions, BookingDates, {<<>>})
    \/ BookCreate(Sessions)
    \/ CancelAppointment(Sessions, ApptArgs, {""}, {0}) /\ UNCHANGED bookVars

SpecBooking == Init /\ [][BookingNext /\ UNCHANGED <<agentVars, chatVars, reminderVars>>]_vars

\* One turn and one EndCall of a session whose collaborators may fail: the
\* appointment fetch, the summary generation and the save of endConversation.
EndingNext ==
    \/ (\E t \in AudioTurns : TurnGuard(t)) /\ UNCHANGED others
    \/ (\E t \in AudioTurns : TurnAppendUser(t)) /\ UNCHANGED others
    \/ (\E t \in AudioTurns : TurnChat(t)) /\ UNCHANGED others
    \/ (\E t \in AudioTurns : TurnAppendAssistant(t)) /\ UNCHANGED others
    \/ (\E t \in AudioTurns : TurnSpeak(t, {1}, {TRUE}, {TRUE})) /\ UNCHANGED others
    \/ (\E t \in AudioTurns : TurnCheckEnd(t)) /\ UNCHANGED others
    \/ (\E t \in AudioTurns : TurnRelease(t)) /\ UNCHANGED others
    \/ (\E e \in AudioEnds : EndCallGuard(e)) /\ UNCHANGED others
    \/ (\E e \in AudioEnds : EndCallReturn(e)) /\ UNCHANGED others
    \/ (\E i \in AudioRuns : EcSnapshot(i)) /\ UNCHANGED others
    \/ (\E i \in AudioRuns : EcFetch(i, FetchOutcomes)) /\ UNCHANGED others
    \/ (\E i \in AudioRuns : EcSummary(i, SummaryOutcomes)) /\ UNCHANGED others
    \/ (\E i \in AudioRuns : EcSave(i, SaveOutcomes)) /\ UNCHANGED others
    \/ (\E i \in AudioRuns : EcNotify(i)) /\ UNCHANGED others

\* a started endConversation runs on: each of its steps is a call that returns
EndingFairness ==
    \A i \in AudioRuns :
        /\ WF_vars(EcSnapshot(i) /\ UNCHANGED others)
        /\ WF_vars(EcFetch(i, FetchOutcomes) /\ UNCHANGED others)
        /\ WF_vars(EcSummary(i, SummaryOutcomes) /\ UNCHANGED others)
        /\ WF_vars(EcSave(i, SaveOutcomes) /\ UNCHANGED others)
        /\ WF_vars(EcNotify(i) /\ UNCHANGED others)

SpecEnding == Init /\ [][EndingNext]_vars

\* A session from Start on: the greeting goroutine and the turns of the inputs
\* that arrive once Start has returned, with synthesis failing in either mode.
SpeechLens == {0, 2}
startOthers == <<chatVars, reminderVars, bookVars, sttVars>>
SpeechNext ==
    \/ Start(BOOLEAN) /\ UNCHANGED startOthers
    \/ GreetAppend /\ UNCHANGED startOthers
    \/ GreetSpeak({2}, BOOLEAN, BOOLEAN) /\ UNCHANGED startOthers
    \/ (greetPc # "none" /\ \E t \in Turns : TurnGuard(t)) /\ UNCHANGED startOthers
    \/ (\E t \in Turns : TurnAppendUser(t)) /\ UNCHANGED startOthers
    \/ (\E t \in Turns : TurnChat(t)) /\ UNCHANGED startOthers
    \/ (\E t \in Turns : TurnAppendAssistant(t)) /\ UNCHANGED startOthers
    \/ (\E t \in Turns : TurnSpeak(t, SpeechLens, BOOLEAN, BOOLEAN)) /\ UNCHANGED startOthers
    \/ (\E t \in Turns : TurnCheckEnd(t)) /\ UNCHANGED startOthers
    \/ (\E t \in Turns : TurnRelease(t)) /\ UNCHANGED startOthers

SpecSpeech == Init /\ [][SpeechNext]_vars
SpecEndingFair == SpecEnding /\ EndingFairness

\* Everything that takes the session lock, together: a turn with the audit
\* callbacks of its tools, the greeting, an EndCall, the terminations, the audio
\* path with its lazy start of the speech-to-text client, the error callback of
\* that client, and the readers. A termination is followed up to its snapshot,
\* the one place where it takes the lock. No audio arrives once the handler
\* has called Stop: its read loop, the caller of SendAudio, has ended.
LockNext ==
    \/ Start({TRUE}) /\ UNCHANGED startOthers
    \/ GreetAppend /\ UNCHANGED startOthers
    \/ (greetPc # "none" /\ \E t \in AudioTurns : TurnGuard(t)) /\ UNCHANGED others
    \/ (\E t \in AudioTurns : TurnAppendUser(t)) /\ UNCHANGED others
    \/ (\E t \in AudioTurns : OnToolCall(t)) /\ UNCHANGED others
    \/ (\E t \in AudioTurns : OnToolResult(t)) /\ UNCHANGED others
    \/ (\E t \in AudioTurns : TurnChat(t)) /\ UNCHANGED others
    \/ (\E t \in AudioTurns : TurnAppendAssistant(t)) /\ UNCHANGED others
    \/ (\E t \in AudioTurns : TurnSpeak(t, {1}, {TRUE}, {TRUE})) /\ UNCHANGED others
    \/ (\E t \in AudioTurns : TurnCheckEnd(t)) /\ UNCHANGED others
    \/ (\E t \in AudioTurns : TurnRelease(t)) /\ UNCHANGED others
    \/ (greetPc # "none" /\ \E e \in AudioEnds : EndCallGuard(e)) /\ UNCHANGED others
    \/ (\E i \in AudioRuns : EcSnapshot(i)) /\ UNCHANGED others
    \/ (greetPc # "none" /\ \E r \in Readers : GetSessionCall(r)) /\ UNCHANGED others
    \/ (\E r \in Readers : GetSessionRLock(r)) /\ UNCHANGED others
    \/ (\E r \in Readers : GetSessionRUnlock(r)) /\ UNCHANGED others
    \/ (greetPc # "none" /\ ~ cancelled /\ SendAudioBegin)
    \/ InitSttLock
    \/ InitSttDial
    \/ SendAudioWrite
    \/ SttOnError
    \/ (greetPc # "none" /\ Stop)

SpecLock == Init /\ [][LockNext]_vars

\* The steps of a goroutine that is under way: a call to a collaborator that
\* returns, or a critical section entered when the lock can be taken
LockProgress ==
    \/ GreetAppend /\ UNCHANGED startOthers
    \/ (\E t \in AudioTurns : TurnAppendUser(t)) /\ UNCHANGED others
    \/ (\E t \in AudioTurns : OnToolResult(t)) /\ UNCHANGED others
    \/ (\E t \in AudioTurns : TurnChat(t)) /\ UNCHANGED others
    \/ (\E t \in AudioTurns : TurnAppendAssistant(t)) /\ UNCHANGED others
    \/ (\E t \in AudioTurns : TurnSpeak(t, {1}, {TRUE}, {TRUE})) /\ UNCHANGED others
    \/ (\E t \in AudioTurns : TurnCheckEnd(t)) /\ UNCHANGED others
    \/ (\E t \in AudioTurns : TurnRelease(t)) /\ UNCHANGED others
    \/ (\E i \in AudioRuns : EcSnapshot(i)) /\ UNCHANGED others
    \/ (\E r \in Readers : GetSessionRLock(r)) /\ UNCHANGED others
    \/ (\E r \in Readers : GetSessionRUnlock(r)) /\ UNCHANGED others
    \/ InitSttLock
    \/ InitSttDial
    \/ SendAudioWrite

\* While a goroutine under way can take a step, one of them does; and the
\* connection closes in the end: the handler then calls Stop.
LockFairness ==
    /\ WF_vars(LockProgress)
    /\ WF_vars(greetPc # "none" /\ Stop)

SpecLockFair == SpecLock /\ LockFairness

\* ================================================================== claims
\* Two half-open intervals [s1, e1) and [s2, e2) share an instant
Max(a, b) == IF a > b THEN a ELSE b
Min(a, b) == IF a < b THEN a ELSE b
Overlap(s1, e1, s2, e2) == Max(s1, s2) < Min(e1, e2)
End(a) == a.date_time + a.duration * Minute
Booked == { i \in DOMAIN appointments : appointments[i].status = StatusBooked }

\* C1: CheckSlotAvailability(start, duration) returns false if and only if some
\* appointment with status booked has apptStart < start + duration and
\* apptStart + apptDuration > start.
C1_AvailabilityIffNoBookedOverlap ==
    last.tool = "check_slot" =>
        (last.success = FALSE <=>
            \E i \in Booked :
                /\ appointments[i].date_time < last.date_time + last.duration * Minute
                /\ End(appointments[i]) > last.date_time)

\* C2: after any sequence of book, modify and cancel operations executed one at a
\* time, no two booked appointments have overlapping intervals [start, start+duration).
C2_NoTwoBookedOverlap ==
    \A i, j \in Booked :
        i # j => ~ Overlap(appointments[i].date_time, End(appointments[i]),
                            appointments[j].date_time, End(appointments[j]))

\* C3: right after a book_appointment that succeeded with start s and duration d,
\* CheckSlotAvailability(s, d) returns false.
C3_BookedSlotIsUnavailable ==
    (last.tool = ToolBookAppointment /\ last.success) =>
        ~ CheckSlotAvailability(appointments, last.date_time, last.duration)

\* C9: identify_user with a phone number that has no caller record and without a
\* name returns a structured failure (no success, no hard error) and creates no
\* caller record.
C9_NewCallerWithoutNameIsAskedForName ==
    (/\ last.tool = ToolIdentifyUser
     /\ last.msg \notin {"phone_number is required", "failed to check user",
                         "failed to create user"}
     /\ last.phone # <<>>
     /\ ~ last.existed
     /\ last.name = "") =>
        (~ last.success /\ ~ last.hardError /\ ~ last.wrote)

\* C10: once identify_user has succeeded in a session, the session's bound phone is
\* non-empty and is the normalized phone of the latest successful identify_user,
\* and book, retrieve, cancel and modify of that session do not answer
\* 'not identified'.
C10_IdentityStaysBound ==
    \A s \in Sessions :
        identified[s].done =>
            /\ userPhone[s] # <<>>
            /\ userPhone[s] = identified[s].phone
            /\ (last.sess = s /\ last.tool \in {ToolBookAppointment,
                    ToolRetrieveAppointments, ToolCancelAppointment,
                    ToolModifyAppointment}) => last.msg # NotIdentified

\* the positions of a ProcessUserInput invocation past the guard and not yet returned
InFlight == {"user", "chat", "assistant", "speak", "end?", "release"}
TurnsInFlight == { t \in Turns : turnPc[t] \in InFlight }
MessagesOf(t) == { k \in DOMAIN messages : messages[k].turn = t }
AllEcDone == \A i \in Invocations : ecPc[i] \in {"none", "done"}

C4_Inv ==
    /\ Cardinality(TurnsInFlight) <= 1
    /\ isProcessing <=> TurnsInFlight # {}
    /\ \A t \in Turns : turnPc[t] = "dropped" => (MessagesOf(t) = {} /\ resp[t] = "none")

C4_Step ==
    \A t \in Turns :
        /\ (turnPc[t] = "idle" /\ turnPc'[t] # "idle") =>
                IF isProcessing
                THEN turnPc'[t] = "dropped" /\ messages' = messages /\ resp' = resp
                ELSE turnPc'[t] = "user" /\ isProcessing'
        /\ turnPc[t] = "dropped" => turnPc'[t] = "dropped"

\* C4: at most one ProcessUserInput invocation per session is past the isProcessing
\* guard; an invocation that arrives while isProcessing is true appends no user
\* message, makes no language-model call and stays dropped; the test and the set of
\* the flag are one step.
C4_AtMostOneTurnInFlight == [] C4_Inv /\ [][C4_Step]_vars

C4_Witness ==
    \E t1, t2 \in Turns : turnPc[t1] = "dropped" /\ turnPc[t2] = "chat"

\* the triggers so far are one model-signalled end followed by manual EndCalls
ModelThenManual ==
    /\ Len(triggers) >= 2
    /\ triggers[1] = "model"
    /\ \A k \in 2..Len(triggers) : triggers[k] = "manual"

\* C5: when a turn ends with a model-signalled end and EndCall is then invoked,
\* endConversation runs exactly once: one run is started, and when it has returned
\* one summary was produced, saved once, and onCallEnd was invoked once.
C5_ModelThenManualEndsOnce ==
    ModelThenManual =>
        /\ ecStarted = 1
        /\ summaries <= 1 /\ saves <= 1 /\ callEnds <= 1
        /\ AllEcDone => (summaries = 1 /\ saves = 1 /\ callEnds = 1)

C5_Witness ==
    /\ triggers = <<"model", "manual">>
    /\ \A e \in EndCalls : endPc[e] \in {"idle", "done"}
    /\ AllEcDone
    /\ callEnds = 1

\* C6: for any number and interleaving of termination triggers, endConversation runs
\* at most once: at most one summary, one save, one onCallEnd.
C6_TerminationRunsAtMostOnce ==
    ecStarted <= 1 /\ summaries <= 1 /\ saves <= 1 /\ callEnds <= 1

\* ------------------------------------------------------------------ C8
\* the batch of the current round holds an executed end_conversation request whose
\* result signals termination
EndSignalled ==
    \E k \in 1..Len(batch) :
        /\ k < idx
        /\ batch[k].name = ToolEndConversation
        /\ batch[k].argsOk
        /\ endConversationTool.should_end

\* the completion calls made after the current round's batch was received
Further == { k \in 1..Len(completions) : completions[k].round = rounds }

C8_Inv ==
    EndSignalled =>
        /\ chatPc \in {"tools", "returned"}
        /\ chatPc = "tools" => Further = {}
        /\ chatPc = "returned" =>
            /\ Further = { Len(completions) }
            /\ ~ completions[Len(completions)].tools
            /\ completions[Len(completions)].executed = Len(batch)
            /\ completions[Len(completions)].msgs = Len(openAIMessages)
            /\ idx = Len(batch) + 1
            /\ chatResp.kind = "ok"
            /\ chatResp.ShouldEnd

\* C8: once a round holds an end_conversation request whose result signals
\* termination, the engine executes the rest of the batch, makes exactly one more
\* completion call, without the tool catalog, and returns ShouldEnd = true with no
\* further round and no further tool, also when that final call fails.
C8_EndSignalRunsOneFinalCall ==
    /\ [] C8_Inv
    /\ (EndSignalled ~> (chatPc = "returned" /\ chatResp.ShouldEnd))

\* the end request came first of two, the second tool ran, and the final call failed
C8_Witness ==
    /\ chatPc = "returned"
    /\ EndSignalled
    /\ Len(batch) = 2
    /\ batch[1].name = ToolEndConversation
    /\ batch[1].argsOk
    /\ rounds = 2
    /\ ~ completions[Len(completions)].ok
    /\ chatResp.ShouldEnd


\* ------------------------------------------------------------------ C7
\* C7: for an appointment and a reminder type, the callback is invoked at most
\* once over the ticks that run while the appointment is tracked, that is since
\* it was last handed to AddAppointment; ticks inside one window included.
C7_ReminderFiresAtMostOncePerType ==
    \A id \in ApptIds : \A k \in 1..Len(ReminderTypes) : fired[id][ReminderTypes[k]] <= 1

\* a later tick looks at a type again inside its window, after the callback ran
C7_Witness ==
    /\ tick.pc = "check"
    /\ reminders[tick.id] = tick.copy[tick.id]
    /\ Due(ReminderTypes[tick.k], tick.until, tick.now, tick.at)
    /\ ReminderTypes[tick.k] \in records[tick.copy[tick.id]].RemindersSent
    /\ fired[tick.id][ReminderTypes[tick.k]] = 1


\* ------------------------------------------------------------------ C11
\* the step is an invocation of the tool: the tools are what changes last and the store
ToolStep(tool) ==
    /\ last'.tool = tool
    /\ last' # last \/ appointments' # appointments \/ users' # users

\* before the step, the appointment the call names is the invoking caller's and booked
OwnedAndBooked ==
    /\ last'.id \in DOMAIN appointments
    /\ userPhone[last'.sess] # <<>>
    /\ appointments[last'.id].user_phone = userPhone[last'.sess]
    /\ appointments[last'.id].status = StatusBooked

\* C11: modify_appointment with only a non-empty new_notes, on an owned and booked
\* appointment, replaces the notes, leaves date_time, duration, purpose, status
\* and owner as they were, and returns success with the notes change listed.
C11_NotesOnlyModifyChangesOnlyNotes ==
    [][ ( /\ ToolStep(ToolModifyAppointment)
          /\ OwnedAndBooked
          /\ last'.given = {"new_notes"}
          /\ last'.failed = "" )
        => /\ last'.success
           /\ ~ last'.hardError
           /\ last'.changes = <<"notes updated">>
           /\ appointments' = [appointments EXCEPT
                ![last'.id].notes = [text |-> last'.new_notes, reasons |-> <<>>]]
      ]_vars

\* a notes-only modification succeeded on an appointment that has a purpose
C11_Witness ==
    /\ last.tool = ToolModifyAppointment
    /\ last.success
    /\ last.given = {"new_notes"}
    /\ appointments[last.id].notes.text = last.new_notes
    /\ appointments[last.id].purpose # ""


\* ------------------------------------------------------------------ C12
\* C12: modify_appointment that supplies no recognized change field, on an owned
\* and booked appointment, returns success = false with 'No changes specified'
\* and updates nothing in the data store.
C12_ModifyWithoutFieldsIsNoChanges ==
    [][ ( /\ ToolStep(ToolModifyAppointment)
          /\ OwnedAndBooked
          /\ last'.given = {}
          /\ last'.failed = "" )
        => /\ ~ last'.success
           /\ ~ last'.hardError
           /\ last'.msg = "No changes specified"
           /\ ~ last'.wrote
           /\ appointments' = appointments
      ]_vars

\* the 'no changes' result was returned for an appointment that has notes
C12_Witness ==
    /\ last.tool = ToolModifyAppointment
    /\ last.msg = "No changes specified"
    /\ last.given = {}
    /\ appointments[last.id].status = StatusBooked
    /\ appointments[last.id].user_phone = userPhone[last.sess]
    /\ appointments[last.id].notes.text # ""

\* ------------------------------------------------------------------ C13
\* C13: cancel_appointment by the owning caller on an appointment that is already
\* cancelled returns success = false with 'Appointment is already cancelled', no
\* hard error, and leaves the status and the notes as they were.
C13_CancelOfCancelledIsRefused ==
    [][ ( /\ ToolStep(ToolCancelAppointment)
          /\ last'.id \in DOMAIN appointments
          /\ userPhone[last'.sess] # <<>>
          /\ appointments[last'.id].user_phone = userPhone[last'.sess]
          /\ appointments[last'.id].status = StatusCancelled
          /\ last'.failed = "" )
        => /\ ~ last'.success
           /\ ~ last'.hardError
           /\ last'.msg = "Appointment is already cancelled"
           /\ appointments' = appointments
      ]_vars

\* a second cancellation, with a reason, of an appointment cancelled without one
C13_Witness ==
    /\ last.tool = ToolCancelAppointment
    /\ last.msg = "Appointment is already cancelled"
    /\ last.reason # ""
    /\ appointments[last.id].status = StatusCancelled
    /\ appointments[last.id].notes.reasons = <<>>

\* ------------------------------------------------------------------ C14
\* C14: a cancel_appointment or modify_appointment that names a stored appointment
\* whose user_phone is not the phone bound to the invoking session changes
\* nothing in the store and returns a structured failure.
C14_OnlyOwnerChangesAppointment ==
    [][ ( /\ ToolStep(ToolCancelAppointment) \/ ToolStep(ToolModifyAppointment)
          /\ last'.id \in DOMAIN appointments
          /\ appointments[last'.id].user_phone # userPhone[last'.sess] )
        => /\ appointments' = appointments
           /\ users' = users
           /\ ~ last'.wrote
           /\ last'.failed = "" => (~ last'.success /\ ~ last'.hardError)
      ]_vars

\* the session, bound to another caller, was refused the change of a booked
\* appointment with all the change fields supplied
C14_Witness ==
    /\ last.tool = ToolModifyAppointment
    /\ last.msg = "You can only modify your own appointments"
    /\ last.given = {"new_purpose", "new_notes"}
    /\ userPhone[last.sess] # <<>>
    /\ appointments[last.id].user_phone # userPhone[last.sess]
    /\ appointments[last.id].status = StatusBooked

\* ------------------------------------------------------------------ C16
\* C16: book, retrieve, cancel and modify, invoked in a session in which no
\* identify_user has succeeded, return the structured 'not identified' failure,
\* no hard error, and write nothing, whatever their other arguments.
C16_UnidentifiedSessionIsRefused ==
    [][ ( /\ \/ ToolStep(ToolBookAppointment)
             \/ ToolStep(ToolRetrieveAppointments)
             \/ ToolStep(ToolCancelAppointment)
             \/ ToolStep(ToolModifyAppointment)
          /\ ~ identified[last'.sess].done )
        => /\ ~ last'.success
           /\ ~ last'.hardError
           /\ last'.msg = NotIdentified
           /\ ~ last'.wrote
           /\ appointments' = appointments
           /\ users' = users
      ]_vars

\* a session that was never identified was refused while the other one is bound
C16_Witness ==
    /\ last.tool = ToolBookAppointment
    /\ last.msg = NotIdentified
    /\ ~ identified[last.sess].done
    /\ \E s \in Sessions : identified[s].done /\ userPhone[s] # <<>>


\* ------------------------------------------------------------------ C15
\* the store without the row of appointment id: what the availability check sees
\* of the other appointments
Others(appts, id) == [appts EXCEPT ![id].status = StatusCancelled]

\* C15: a modify_appointment that supplies new_date_time and/or new_duration
\* commits only if the resulting interval does not start in the past and
\* CheckSlotAvailability reports it available on the store of that moment; also
\* when only new_duration is supplied. The appointment's own row is left out of
\* the check here, which asks less than the claim does.
C15_ModifyCommitsOnlyCheckedIntervals ==
    [][ ( /\ ToolStep(ToolModifyAppointment)
          /\ last'.given \cap {"new_date_time", "new_duration"} # {}
          /\ appointments' # appointments )
        => /\ appointments'[last'.id].date_time >= now
           /\ CheckSlotAvailability(Others(appointments, last'.id),
                                    appointments'[last'.id].date_time,
                                    appointments'[last'.id].duration)
      ]_vars


\* ------------------------------------------------------------------ C17
\* C17: when CheckSlotAvailability fails with a data-store error, the calling tool
\* (fetch_slots, book_appointment, modify_appointment) returns a hard error: it
\* reports no slot as available and creates or updates no appointment.
C17_CheckFailureIsHardError ==
    ( /\ last.tool \in {ToolFetchSlots, ToolBookAppointment, ToolModifyAppointment}
      /\ last.failed = "CheckSlotAvailability" )
    => /\ last.hardError
       /\ ~ last.wrote
       /\ \A i \in 1..Len(last.slots) :
            ~ (last.slots[i].available /\ ~ last.slots[i].checked)

\* ------------------------------------------------------------------ C18
\* the latest operation was an invocation of ExecuteTool
ViaExecuteTool == last.tool \notin {"", "check_slot"}

\* C18: ExecuteTool returns a hard error only when a data-store operation failed;
\* every other outcome of every tool is a structured payload with a success flag.
C18_HardErrorOnlyOnStoreFailure ==
    ViaExecuteTool =>
        /\ last.hardError => last.failed # ""
        /\ ~ last.hardError => last.flagged

\* ------------------------------------------------------------------ C19
\* C19: every ExecuteTool invocation, whatever its outcome, emits exactly one
\* tool-call notification before execution and exactly one tool-result
\* notification after it, with the same id, and appends exactly one record to the
\* session's audit log.
C19_EveryInvocationIsNotifiedAndLogged ==
    ViaExecuteTool =>
        /\ Len(last.events) = 2
        /\ last.events[1][1] = "tool_call"
        /\ last.events[2][1] = "tool_result"
        /\ last.events[1][2] = last.events[2][2]
        /\ last.logged = 1


\* ------------------------------------------------------------------ C20
\* C20: VoiceAgent.mu is never held by an invocation while its blocking network
\* call to an external collaborator (language model, speech-to-text connect or
\* send, speech synthesis, data store) is in progress.
C20_LockNotHeldAcrossNetworkCall ==
    /\ \A t \in Turns :
        turnPc[t] \in {"chat", "speak"} => (mu.writer # t /\ t \notin mu.readers)
    /\ \A i \in Invocations :
        ecPc[i] \in {"fetch", "summary", "save"} => (mu.writer # i /\ i \notin mu.readers)
    /\ audioPc \in {"dial", "send"} => mu.writer # Audio


\* ------------------------------------------------------------------ C21
\* C21: no state lets two goroutines access the same field of the session's
\* shared state, one of them writing, with one of them outside the session lock.
C21_SharedStateOnlyUnderLock ==
    \A a \in Accesses : \A b \in Accesses :
        (a.who # b.who /\ a.field = b.field /\ (a.write \/ b.write))
            => (a.locked /\ b.locked)


\* ------------------------------------------------------------------ C22
\* C22: every started endConversation reaches onCallEnd with a summary and a cost
\* breakdown, whatever the fetch, the summary generation and the save return.
C22_StartedTerminationReachesOnCallEnd ==
    \A i \in AudioRuns :
        (ecPc[i] = "snapshot")
            ~> (ecPc[i] = "done"
                /\ ecLog[i].notified \in { <<"generated", "cost">>, <<"placeholder", "cost">> })

\* a termination that met all three failures and still notified
C22_Witness ==
    \E i \in AudioRuns :
        /\ ecLog[i].fetch = "failed"
        /\ ecLog[i].summary = "placeholder"
        /\ ecLog[i].save = "failed"
        /\ ecLog[i].notified = <<"placeholder", "cost">>
        /\ onErrors[i] = 1


\* ------------------------------------------------------------------ C23
\* C23: a turn whose language-model call failed has called onError once and
\* appended no assistant message, and once every started turn has returned
\* isProcessing is false, so that the next transcript starts a turn.
Returned(t) == turnPc[t] \in {"done", "dropped"}

C23_FailedTurnLeavesSessionRecoverable ==
    /\ \A t \in Turns :
        (resp[t] = "error" /\ turnPc[t] \in {"release", "done"}) =>
            /\ onErrors[t] = 1
            /\ \A k \in 1..Len(messages) :
                ~(messages[k].role = "assistant" /\ messages[k].turn = t)
    /\ (\A t \in Turns : turnPc[t] = "idle" \/ Returned(t)) => ~isProcessing

\* the first turn failed and returned, and the next transcript started a turn
C23_Witness ==
    \E t \in Turns, u \in Turns :
        /\ resp[t] = "error" /\ turnPc[t] = "done" /\ onErrors[t] = 1
        /\ turnPc[u] = "user"
        /\ \A k \in 1..Len(messages) : messages[k].role = "user"


\* ------------------------------------------------------------------ C24
\* C24: of the book_appointment calls that two sessions make for overlapping
\* intervals, at most one creates an appointment with status booked.
C24_ConcurrentBookingsDoNotOverlap ==
    \A i \in Booked : \A j \in Booked :
        (i # j /\ appointments[i].user_phone # appointments[j].user_phone)
            => ~ Overlap(appointments[i].date_time, End(appointments[i]),
                         appointments[j].date_time, End(appointments[j]))


\* ------------------------------------------------------------------ C25
\* C25: the tool requests of a model response are all executed, in request order,
\* and each leaves one tool-result message, in the same order and tagged with its
\* request; a request that fails leaves an error result and the rest still run.
LastAssistant ==
    CHOOSE k \in 1..Len(openAIMessages) :
        /\ openAIMessages[k].role = "assistant"
        /\ \A j \in (k + 1)..Len(openAIMessages) : openAIMessages[j].role # "assistant"

C25_BatchRunsWholeAndInOrder ==
    rounds > 0 =>
        /\ (chatPc # "tools" => idx = Len(batch) + 1)
        /\ Len(openAIMessages) = LastAssistant + (idx - 1)
        /\ \A k \in 1..(idx - 1) :
            LET m == openAIMessages[LastAssistant + k] IN
            /\ m.role = "tool"
            /\ m.call = k
            /\ m.tool = batch[k].name
            /\ (~ batch[k].argsOk => m.error)

\* a batch of two whose first request failed and whose second ran without error
C25_Witness ==
    /\ rounds > 0
    /\ chatPc # "tools"
    /\ Len(batch) = 2
    /\ openAIMessages[LastAssistant + 1].error
    /\ ~ openAIMessages[LastAssistant + 2].error
    /\ openAIMessages[LastAssistant + 2].call = 2


\* ------------------------------------------------------------------ C26
\* C26: when a call has been ended, by EndCall or by the model's end signal, the
\* session's context has been cancelled.
C26_EndedCallHasCancelledContext ==
    \A i \in AudioRuns : ecPc[i] = "done" => cancelled


\* ------------------------------------------------------------------ C27
\* C27: an appointment that a tick found cancelled, completed, missing or elapsed
\* is no longer tracked under the record the tick looked at and got no reminder
\* in that tick; and when a tick whose fetches all succeeded is over, every
\* appointment still tracked under the record the tick looked at was found
\* booked with its start not passed.
SameRecord(id) == tick.copy[id] # 0 /\ reminders[id] = tick.copy[id]

C27_TickLeavesOnlyLiveAppointments ==
    /\ \A id \in ApptIds :
        tick.seen[id] \in {"gone", "elapsed"} => (~ SameRecord(id) /\ id \notin tick.sent)
    /\ (/\ tick.pc = "next"
        /\ tick.pending = {}
        /\ \A id \in ApptIds : tick.seen[id] # "error")
        => \A id \in ApptIds : SameRecord(id) => tick.seen[id] = "live"

\* a tick that dropped an elapsed appointment without reminding of it
C27_Witness ==
    /\ tick.pc = "next"
    /\ tick.pending = {}
    /\ \E id \in ApptIds :
        /\ tick.seen[id] = "elapsed"
        /\ reminders[id] = 0
        /\ id \notin tick.sent


\* ------------------------------------------------------------------ C28
\* C28: a reminder fires only at a tick at which the remaining time is within the
\* type's threshold, the tick tolerance included, and was above the threshold
\* when tracking of the appointment began or at the previous tick.
Threshold(type) ==
    CASE type = ReminderType24Hour -> 24 * Hour + Minute
      [] type = ReminderType1Hour -> Hour + Minute
      [] type = ReminderTypeOnDay -> 24 * Hour

Fires(id, type) == fired'[id][type] > fired[id][type]

C28_FiresOnlyOnCrossingIntoRange ==
    [][\A id \in ApptIds : \A k \in 1..Len(ReminderTypes) :
        LET type == ReminderTypes[k] IN
        Fires(id, type) =>
            /\ tick.until > 0
            /\ tick.until <= Threshold(type)
            /\ \/ tick.at - records[tick.copy[id]].NextCheck > Threshold(type)
               \/ (tick.prev # <<>> /\ tick.at - tick.prev[1] > Threshold(type))]_vars


\* ------------------------------------------------------------------ C29
\* C29: AddAppointment for an appointment that is already tracked, called directly
\* or by LoadPendingAppointments, keeps the fired flags of its record.
C29_ReAddKeepsFiredFlags ==
    [][\A id \in ApptIds :
        (reminders[id] # 0 /\ reminders'[id] # 0 /\ reminders'[id] # reminders[id])
            => records[reminders[id]].RemindersSent
                    \subseteq records'[reminders'[id]].RemindersSent]_vars

\* ------------------------------------------------------------------ C30
\* C30: the on_day reminder fires only at a tick whose calendar day is the
\* calendar day of the appointment.
C30_OnDayFiresOnTheAppointmentsDay ==
    [][\A id \in ApptIds :
        Fires(id, ReminderTypeOnDay)
            => (YearDay(tick.now) = YearDay(tick.at) /\ Year(tick.now) = Year(tick.at))]_vars


\* ------------------------------------------------------------------ C31
\* C31: the step of a successful book_appointment leaves the new appointment in
\* the reminder scheduler's tracked set.
C31_BookedAppointmentIsTracked ==
    [][(ToolStep(ToolBookAppointment) /\ last'.success /\ last'.wrote)
        => reminders'[last'.id] # 0]_vars


\* ------------------------------------------------------------------ C32
\* C32: an utterance is synthesized through the request/response API when there
\* is no streaming client or when its Speak returned an error; a failure of the
\* request/response call is reported through onError; and whatever the synthesis
\* did, the assistant message stays, the session is ended only by a trigger, and
\* the processing flag is cleared when the turns have returned.
Spoke(t) == turnPc[t] \in {"end?", "release", "done"} /\ resp[t] # "error"

C32_SynthesisFallsBackAndNeverEndsTheSession ==
    /\ \A t \in Turns :
        (Spoke(t) /\ speech[t].len > 0) =>
            /\ (speech[t].streamed = "none") <=> ~ ttsClient
            /\ (speech[t].streamed \in {"none", "error"}) <=> (speech[t].rest # "none")
            /\ (speech[t].rest = "error") <=> (onErrors[t] = 1)
            /\ \E k \in 1..Len(messages) :
                messages[k].role = "assistant" /\ messages[k].turn = t
    /\ shouldEnd => triggers # <<>>
    /\ (\A t \in Turns : turnPc[t] = "idle" \/ Returned(t)) => ~ isProcessing

\* a turn whose Speak failed and whose request/response call failed too, followed
\* by a turn that started
C32_Witness ==
    \E t \in Turns, u \in Turns :
        /\ turnPc[t] = "done"
        /\ speech[t].streamed = "error"
        /\ speech[t].rest = "error"
        /\ onErrors[t] = 1
        /\ ~ shouldEnd
        /\ turnPc[u] = "chat"


\* ------------------------------------------------------------------ C33
\* C33: a cancelled appointment is the same row after every step, never deleted
\* and never booked again; a cancel_appointment or modify_appointment that names
\* it and meets no store failure returns a structured failure.
C33_CancelledAppointmentIsFrozen ==
    [][\A id \in DOMAIN appointments :
        appointments[id].status = StatusCancelled =>
            /\ id \in DOMAIN appointments'
            /\ appointments'[id] = appointments[id]
            /\ ( /\ \/ ToolStep(ToolCancelAppointment)
                    \/ ToolStep(ToolModifyAppointment)
                 /\ last'.id = id
                 /\ last'.failed = "" )
                => (~ last'.success /\ ~ last'.hardError /\ last'.flagged)]_vars

\* a modify_appointment with new notes and a new purpose, refused on a cancelled
\* appointment of the caller
C33_Witness ==
    /\ last.tool = ToolModifyAppointment
    /\ last.id \in DOMAIN appointments
    /\ appointments[last.id].status = StatusCancelled
    /\ appointments[last.id].user_phone = userPhone[last.sess]
    /\ last.new_notes # ""
    /\ ~ last.success


\* ------------------------------------------------------------------ C34
\* C34: a successful identify_user reports is_new_user = true exactly when the
\* caller record did not exist before the call. Calls without a name or with a
\* phone number without digits are left out here, which asks less than the claim
\* does.
C34_IsNewUserIffCreated ==
    (/\ last.tool = ToolIdentifyUser
     /\ last.success
     /\ last.phone # <<>>
     /\ last.name # "")
        => (last.is_new_user <=> ~ last.existed)


\* ------------------------------------------------------------------ C35
\* C35: no ProcessUserInput invocation starts a turn (passes its guard, to append
\* its user message and call the language model) once shouldEnd is set.
C35_NoTurnStartsAfterTermination ==
    [][\A t \in Turns :
        (turnPc[t] = "idle" /\ turnPc'[t] = "user") => ~ shouldEnd]_vars


\* ------------------------------------------------------------------ C36
\* C36: no user message stands in the conversation history before the greeting
\* that Start issues.
C36_GreetingIsFirstInHistory ==
    \A k \in 1..Len(messages) :
        messages[k].role = "user"
            => \E j \in 1..(k - 1) : messages[j].turn = Greeting


\* ------------------------------------------------------------------ C37
\* C37: SendAudio never calls SendAudio on a nil speech-to-text client.
C37_SendAudioNeverUsesNilClient ==
    audioPc # "panic"


\* ------------------------------------------------------------------ C38
\* C38: the synthesis of a non-empty utterance adds exactly the utterance's
\* length to totalCharacters, whichever mode handles it, and totalCharacters
\* never decreases.
C38_UtteranceIsCountedOnce ==
    [][/\ totalCharacters' >= totalCharacters
       /\ \A w \in Speakers :
            (speech'[w] # speech[w] /\ speech'[w].len > 0)
                => totalCharacters' = totalCharacters + speech'[w].len]_vars


\* ------------------------------------------------------------------ C39
\* C39: a modify_appointment by the owner that moves a booked appointment to a
\* new time, not in the past, at which its interval overlaps no other booked
\* appointment is not refused for want of a free slot: the appointment's own
\* current interval is no conflict.
OtherBooked(id) == Booked \ {id}

C39_OwnIntervalIsNoConflict ==
    [][( /\ ToolStep(ToolModifyAppointment)
         /\ OwnedAndBooked
         /\ last'.msg = "The new time slot is not available"
         /\ last'.date_time # appointments[last'.id].date_time )
        => \E i \in OtherBooked(last'.id) :
              Overlap(appointments[i].date_time, End(appointments[i]),
                      last'.date_time, last'.date_time + last'.duration * Minute)]_vars


\* C40: the session lock never deadlocks. A goroutine that stands at a request
\* of VoiceAgent.mu (a turn before one of its critical sections or before the
\* result of a tool call is recorded, a termination before its snapshot, the
\* greeting before its append, SendAudio before initSTT, a reader before its
\* RLock) does not hold the lock already, and, every collaborator call
\* returning, it leaves that request: the lock is granted to it.
Holds(g) == mu.writer = g \/ g \in mu.readers
TurnRequests(t) ==
    \/ turnPc[t] \in {"user", "assistant", "release"}
    \/ turnPc[t] = "end?" /\ resp[t] = "end"
    \/ turnPc[t] = "chat" /\ Pending(t)
NoRequestWhileHolding ==
    /\ \A t \in AudioTurns : TurnRequests(t) => ~ Holds(t)
    /\ \A i \in AudioRuns : ecPc[i] = "snapshot" => ~ Holds(i)
    /\ greetPc = "append" => ~ Holds(Greeting)
    /\ audioPc = "lock" => ~ Holds(Audio)
    /\ \A r \in Readers : readerPc[r] = "rlock" => ~ Holds(r)

====
